---------------------------- MODULE Spec2Model ----------------------------
(***************************************************************************)
(* Model of DB-Notifier: the snapshot-diff engine (core/report_generator,  *)
(* core/inventory_tracker), the snapshot files of the inventory tracker    *)
(* and the retry logic of scheduler/task_scheduler.                        *)
(***************************************************************************)
EXTENDS Integers, Sequences, FiniteSets, TLC

(***************************************************************************)
(* Bounds of the model.                                                    *)
(***************************************************************************)
MaxLen == 2
MaxTime == 4
MaxExecutions == 5
MaxStores == 3
FirstDay == 100
LastDay == 101
TrendDays == 3
MaxDepth == 3
MaxClock == 3

(***************************************************************************)
(* IEEE-754 binary64 arithmetic, as far as the change computation uses it: *)
(* pandas evaluates  change / bestand_previous.replace(0, 1) * 100  in     *)
(* float64.  A finite non-zero double is  (-1)^neg * M * 2^exp  with M a   *)
(* 53-bit integer whose leading bit is 1; M is kept as the two integers    *)
(* hi (its upper 26 bits) and lo (its lower 27 bits).                      *)
(***************************************************************************)
RECURSIVE BitLen(_)
BitLen(n) == IF n = 0 THEN 0 ELSE 1 + BitLen(n \div 2)

FZero == [kind |-> "zero", neg |-> FALSE, exp |-> 0, hi |-> 0, lo |-> 0]
FInf(neg) == [kind |-> "inf", neg |-> neg, exp |-> 0, hi |-> 0, lo |-> 0]
FNaN == [kind |-> "nan", neg |-> FALSE, exp |-> 0, hi |-> 0, lo |-> 0]

Abs(n) == IF n < 0 THEN -n ELSE n

\* The double with mantissa hi * 2^27 + lo (+ 1 if up: the rounding step) and
\* exponent exp; a carry out of the mantissa moves the exponent.
FloatRound(neg, hi, lo, exp, up) ==
  LET lo1 == IF up THEN lo + 1 ELSE lo
      hi1 == IF lo1 = 2^27 THEN hi + 1 ELSE hi
  IN  IF hi1 = 2^26
      THEN [kind |-> "num", neg |-> neg, exp |-> exp + 1, hi |-> 2^25, lo |-> 0]
      ELSE [kind |-> "num", neg |-> neg, exp |-> exp, hi |-> hi1, lo |-> lo1 % 2^27]

\* The double that equals the integer n (exact for |n| < 2^26).
FloatOfInt(n) ==
  IF n = 0 THEN FZero
  ELSE LET L == BitLen(Abs(n))
       IN  [kind |-> "num", neg |-> n < 0, exp |-> L - 53,
            hi |-> Abs(n) * 2^(26 - L), lo |-> 0]

\* a, b scaled by powers of two so that b <= a < 2b; e counts the scaling.
RECURSIVE Scale(_, _, _)
Scale(a, b, e) ==
  IF a >= 2 * b THEN Scale(a, 2 * b, e + 1)
  ELSE IF a < b THEN Scale(2 * a, b, e - 1)
  ELSE [a |-> a, b |-> b, e |-> e]

\* float64 true division of two integers below 2^16 (numpy semantics for a
\* zero divisor: x / 0 is +-inf, 0 / 0 is nan, and nothing is raised).  The
\* quotient of the scaled operands lies in [1, 2): its 52 fraction bits come
\* from a long division in steps of 13, 12, 14 and 13 bits, and the remainder
\* decides the rounding to nearest, ties to even.
FloatDiv(a, b) ==
  IF b = 0 THEN (IF a = 0 THEN FNaN ELSE FInf(a < 0))
  ELSE IF a = 0 THEN FZero
  ELSE LET s  == Scale(Abs(a), Abs(b), 0)
           r0 == s.a - s.b
           d1 == (r0 * 2^13) \div s.b
           r1 == (r0 * 2^13) % s.b
           d2 == (r1 * 2^12) \div s.b
           r2 == (r1 * 2^12) % s.b
           d3 == (r2 * 2^14) \div s.b
           r3 == (r2 * 2^14) % s.b
           d4 == (r3 * 2^13) \div s.b
           r4 == (r3 * 2^13) % s.b
           hi == 2^25 + d1 * 2^12 + d2
           lo == d3 * 2^13 + d4
           up == 2 * r4 > s.b \/ (2 * r4 = s.b /\ lo % 2 = 1)
       IN  FloatRound((a < 0) # (b < 0), hi, lo, s.e - 52, up)

\* float64 product of a double and an integer n in 1..127: the exact product
\* of the mantissa's four limbs with n, cut back to 53 bits and rounded to
\* nearest, ties to even.
FloatMulInt(f, n) ==
  IF f.kind # "num" THEN f
  ELSE LET a0 == (f.lo % 2^14) * n
           a1 == (f.lo \div 2^14) * n + a0 \div 2^14
           a2 == (f.hi % 2^13) * n + a1 \div 2^13
           t3 == (f.hi \div 2^13) * n + a2 \div 2^13
           p0 == a0 % 2^14
           p1 == a1 % 2^13
           p2 == a2 % 2^13
           plow == p1 * 2^14 + p0
           s  == BitLen(t3) - 13
           hi == t3 * 2^(13 - s) + p2 \div 2^s
           lo == (p2 % 2^s) * 2^(27 - s) + plow \div 2^s
           r  == plow % 2^s
           up == 2 * r > 2^s \/ (2 * r = 2^s /\ lo % 2 = 1)
       IN  FloatRound(f.neg, hi, lo, f.exp + s, up)

FloatAbs(f) == [f EXCEPT !.neg = FALSE]

\* x >= y for doubles; every comparison with nan is false.
FloatGE(x, y) ==
  IF x.kind = "nan" \/ y.kind = "nan" THEN FALSE
  ELSE LET rank(f) == IF f.kind = "zero" THEN <<0, 0, 0, 0>>
                      ELSE IF f.kind = "inf" THEN <<(IF f.neg THEN -1 ELSE 1), 5000, 0, 0>>
                      ELSE <<(IF f.neg THEN -1 ELSE 1), f.exp + 2000, f.hi, f.lo>>
           a == rank(x)
           b == rank(y)
           magGE(u, v) == \/ u[2] > v[2]
                          \/ u[2] = v[2] /\ u[3] > v[3]
                          \/ u[2] = v[2] /\ u[3] = v[3] /\ u[4] >= v[4]
       IN  IF a[1] # b[1] THEN a[1] > b[1]
           ELSE IF a[1] = 0 THEN TRUE
           ELSE IF a[1] = 1 THEN magGE(a, b)
           ELSE magGE(b, a)

(***************************************************************************)
(* Inventory records and snapshots.  A record is one row of the inventory  *)
(* query: an article joined with one of its stock lines.  bezeichnung,     *)
(* hersteller and lager_name travel with artikelnummer and are left out.   *)
(* lager_id is never NULL in the modelled data.                            *)
(***************************************************************************)
Items == {1, 11}
Warehouses == {1, 11}
Quantities == {0, 10, 11, 50}
Thresholds == {10, 100}
Statuses == {"aktiv", "inaktiv"}
NaN == << >>

ArtikelNummer(artikel_id) == 1000 + artikel_id
Kategorie(artikel_id) == IF artikel_id = 1 THEN "A" ELSE "B"

\* The stock lines of the modelled data source: article 1 lies in both
\* warehouses, article 11 in warehouse 1.
StockLines == {<<1, 1>>, <<1, 11>>, <<11, 1>>}

Records(quantities, statuses) ==
  {r \in [artikel_id : Items, lager_id : Warehouses,
          bestand : quantities, status : statuses] :
     <<r.artikel_id, r.lager_id>> \in StockLines}

SeqsUpTo(S, n) == UNION {[1..k -> S] : k \in 0..n}

\* str() of a natural number, as the sequence of its character codes.
RECURSIVE Str(_)
Str(n) == IF n < 10 THEN <<48 + n>> ELSE Append(Str(n \div 10), 48 + (n % 10))

\* Mutants of Key: the separator forgotten; the warehouse forgotten.
Key_NoSeparator(r) == Str(r.artikel_id) \o Str(r.lager_id)
Key_ItemOnly(r) == Str(r.artikel_id)

\* The comparison key: str(artikel_id) + '_' + str(lager_id).
Key(r) == Str(r.artikel_id) \o <<95>> \o Str(r.lager_id)

\* a < b for strings (sequences of character codes), lexicographically.
RECURSIVE StrLess(_, _)
StrLess(a, b) ==
  IF b = << >> THEN FALSE
  ELSE IF a = << >> THEN TRUE
  ELSE IF a[1] # b[1] THEN a[1] < b[1]
  ELSE StrLess(Tail(a), Tail(b))

\* What the inventory query returns and store_daily_data writes: rows in
\* ORDER BY artikelnummer, one per (artikel, stock line), the article's
\* status on each of its rows.
IsSnapshot(s) ==
  /\ \A i, j \in 1..Len(s) : i < j =>
        /\ ArtikelNummer(s[i].artikel_id) <= ArtikelNummer(s[j].artikel_id)
        /\ <<s[i].artikel_id, s[i].lager_id>> # <<s[j].artikel_id, s[j].lager_id>>
        /\ s[i].artikel_id = s[j].artikel_id => s[i].status = s[j].status

SnapshotsOf(quantities, statuses) ==
  {s \in SeqsUpTo(Records(quantities, statuses), MaxLen) : IsSnapshot(s)}

RECURSIVE SortKeys(_)
SortKeys(S) ==
  IF S = {} THEN << >>
  ELSE LET m == CHOOSE k \in S : \A o \in S : o = k \/ StrLess(k, o)
       IN  <<m>> \o SortKeys(S \ {m})

RECURSIVE ConcatAll(_)
ConcatAll(ss) == IF ss = << >> THEN << >> ELSE Head(ss) \o ConcatAll(Tail(ss))

KeysOf(df) == {Key(df[i]) : i \in 1..Len(df)}

\* One row of the merged frame: the current-side columns of the row in l and
\* the previous-side columns of the row in r (l, r: a row as <<row>>, or NaN
\* for the side that has no row with the key).  A cell is <<value>> or NaN.
MergedRow(k, l, r) ==
  [key              |-> k,
   artikelnummer    |-> IF l = NaN THEN NaN ELSE <<ArtikelNummer(l[1].artikel_id)>>,
   bestand_current  |-> IF l = NaN THEN NaN ELSE <<l[1].bestand>>,
   status_current   |-> IF l = NaN THEN NaN ELSE <<l[1].status>>,
   bestand_previous |-> IF r = NaN THEN NaN ELSE <<r[1].bestand>>,
   status_previous  |-> IF r = NaN THEN NaN ELSE <<r[1].status>>]

\* pd.merge(current, previous, on='key', how='outer'): the union of the keys
\* in lexicographic order; a key on both sides gives the product of its rows.
OuterMerge(current_df, previous_df) ==
  LET keys == SortKeys(KeysOf(current_df) \cup KeysOf(previous_df))
      rowsFor(k) ==
        LET L == SelectSeq(current_df, LAMBDA x : Key(x) = k)
            R == SelectSeq(previous_df, LAMBDA x : Key(x) = k)
        IN  IF R = << >> THEN [i \in 1..Len(L) |-> MergedRow(k, <<L[i]>>, NaN)]
            ELSE IF L = << >> THEN [i \in 1..Len(R) |-> MergedRow(k, NaN, <<R[i]>>)]
            ELSE [i \in 1..(Len(L) * Len(R)) |->
                    MergedRow(k, <<L[((i - 1) \div Len(R)) + 1]>>,
                                 <<R[((i - 1) % Len(R)) + 1]>>)]
  IN  ConcatAll([i \in 1..Len(keys) |-> rowsFor(keys[i])])

\* Series.fillna(0): the cell's number, 0 for NaN
FillNa0(v) == IF v = NaN THEN 0 ELSE v[1]

\* Mutant of Replace01: the zero divisor is left in place.
Replace01_Missing(v) == v

\* Series.replace(0, 1)
Replace01(v) == IF v = 0 THEN 1 ELSE v

\* (merged['change'] / merged['bestand_previous'].replace(0, 1)) * 100
ChangePercent(change, bestand_previous) ==
  FloatMulInt(FloatDiv(change, Replace01(bestand_previous)), 100)

\* The merged frame with bestand_* filled and the columns change and
\* change_percent added.
WithChanges(rows) ==
  [i \in 1..Len(rows) |->
     LET c == FillNa0(rows[i].bestand_current)
         p == FillNa0(rows[i].bestand_previous)
     IN  [rows[i] EXCEPT !.bestand_current = c, !.bestand_previous = p]
           @@ [change |-> c - p, change_percent |-> ChangePercent(c - p, p)]]

\* Mutant of IsSignificant: a strict comparison.
IsSignificant_Strict(row, threshold) ==
  FloatGE(FloatAbs(row.change_percent), FloatOfInt(threshold))
  /\ FloatAbs(row.change_percent) # FloatOfInt(threshold)

\* abs(merged['change_percent']) >= self.highlight_threshold
IsSignificant(row, threshold) ==
  FloatGE(FloatAbs(row.change_percent), FloatOfInt(threshold))

\* Mutant of calculate_changes: 'unchanged' counts change >= 0.
calculate_changes_UnchangedGE(current, previous, threshold) ==
  IF current = << >> \/ previous = << >>
  THEN [merged |-> << >>, report |-> [kind |-> "KeyError"]]
  ELSE LET m == WithChanges(OuterMerge(current, previous))
       IN  [merged |-> m,
            report |-> [kind |-> "changes",
                        total_items |-> Len(m),
                        increased   |-> Cardinality({i \in 1..Len(m) : m[i].change > 0}),
                        decreased   |-> Cardinality({i \in 1..Len(m) : m[i].change < 0}),
                        unchanged   |-> Cardinality({i \in 1..Len(m) : m[i].change >= 0}),
                        significant_changes |->
                          SelectSeq(m, LAMBDA r : IsSignificant(r, threshold))]]

\* ReportGenerator._calculate_changes: the merged frame (a local) and the
\* returned report.  A list without rows gives a frame without columns, and
\* the first column access raises KeyError.
calculate_changes(current, previous, threshold) ==
  IF current = << >> \/ previous = << >>
  THEN [merged |-> << >>, report |-> [kind |-> "KeyError"]]
  ELSE LET m == WithChanges(OuterMerge(current, previous))
       IN  [merged |-> m,
            report |-> [kind |-> "changes",
                        total_items |-> Len(m),
                        increased   |-> Cardinality({i \in 1..Len(m) : m[i].change > 0}),
                        decreased   |-> Cardinality({i \in 1..Len(m) : m[i].change < 0}),
                        unchanged   |-> Cardinality({i \in 1..Len(m) : m[i].change = 0}),
                        significant_changes |->
                          SelectSeq(m, LAMBDA r : IsSignificant(r, threshold))]]

\* InventoryTracker.compare_inventory_levels: the same join without the
\* status columns.  A list without rows gives a frame without the required
\* columns: a warning and {} are the answer.  The report is also written to
\* inventory_changes_<today>.json.
DropStatus(row) ==
  [f \in (DOMAIN row) \ {"status_current", "status_previous"} |-> row[f]]

\* Mutant of compare_inventory_levels: a change of exactly the threshold is
\* not significant.
compare_inventory_levels_Strict(current, previous, threshold) ==
  IF current = << >> \/ previous = << >>
  THEN [merged |-> << >>, report |-> [kind |-> "empty"], file |-> << >>]
  ELSE LET rows == OuterMerge(current, previous)
           m    == WithChanges([i \in 1..Len(rows) |-> DropStatus(rows[i])])
           sig  == SelectSeq(m, LAMBDA r : IsSignificant_Strict(r, threshold))
           rep  == [kind |-> "change_report",
                    total_articles |-> Len(current),
                    significant_changes |-> Len(sig),
                    details |-> sig]
       IN  [merged |-> m, report |-> rep, file |-> <<"inventory_changes">>]

compare_inventory_levels(current, previous, threshold) ==
  IF current = << >> \/ previous = << >>
  THEN [merged |-> << >>, report |-> [kind |-> "empty"], file |-> << >>]
  ELSE LET rows == OuterMerge(current, previous)
           m    == WithChanges([i \in 1..Len(rows) |-> DropStatus(rows[i])])
           sig  == SelectSeq(m, LAMBDA r : IsSignificant(r, threshold))
           rep  == [kind |-> "change_report",
                    total_articles |-> Len(current),
                    significant_changes |-> Len(sig),
                    details |-> sig]
       IN  [merged |-> m, report |-> rep, file |-> <<"inventory_changes">>]

\* Mutant of IsZeroInventory: the status is not looked at.
IsZeroInventory_AnyStatus(item) == item.bestand = 0

\* item.get('bestand', 0) == 0 and item.get('status') == 'aktiv'
IsZeroInventory(item) == item.bestand = 0 /\ item.status = "aktiv"

\* InventoryTracker.detect_zero_inventory: the items themselves.
detect_zero_inventory(inventory_data) == SelectSeq(inventory_data, IsZeroInventory)

\* ReportGenerator.generate_daily_report, "Nullbestände identifizieren": a
\* projection of every such item (lager_name travels with lager_id).
ZeroInventoryEntry(item) ==
  [artikel_id |-> item.artikel_id, artikelnummer |-> ArtikelNummer(item.artikel_id),
   lager_id |-> item.lager_id]

report_zero_inventory(current) ==
  LET z == SelectSeq(current, IsZeroInventory)
  IN  [i \in 1..Len(z) |-> ZeroInventoryEntry(z[i])]

\* Mutants of InnerMergeOnArtikel: one row per current row however many
\* previous rows match; a left join whose missing previous status reads
\* aktiv; a join of the rows at the same position.
InnerMergeOnArtikel_FirstMatch(current_df, previous_df) ==
  LET rowsFor(l) ==
        LET R == SelectSeq(previous_df, LAMBDA x : x.artikel_id = l.artikel_id)
        IN  IF R = << >> THEN << >>
            ELSE <<[artikel_id |-> l.artikel_id,
                    artikelnummer |-> ArtikelNummer(l.artikel_id),
                    status_current |-> l.status,
                    status_previous |-> R[1].status]>>
  IN  ConcatAll([i \in 1..Len(current_df) |-> rowsFor(current_df[i])])

InnerMergeOnArtikel_LeftJoin(current_df, previous_df) ==
  LET rowsFor(l) ==
        LET R == SelectSeq(previous_df, LAMBDA x : x.artikel_id = l.artikel_id)
        IN  IF R = << >>
            THEN <<[artikel_id |-> l.artikel_id,
                    artikelnummer |-> ArtikelNummer(l.artikel_id),
                    status_current |-> l.status,
                    status_previous |-> "aktiv"]>>
            ELSE [j \in 1..Len(R) |->
                    [artikel_id |-> l.artikel_id,
                     artikelnummer |-> ArtikelNummer(l.artikel_id),
                     status_current |-> l.status,
                     status_previous |-> R[j].status]]
  IN  ConcatAll([i \in 1..Len(current_df) |-> rowsFor(current_df[i])])

InnerMergeOnArtikel_ByPosition(current_df, previous_df) ==
  LET rowsFor(i) ==
        IF i <= Len(previous_df) /\ previous_df[i].artikel_id = current_df[i].artikel_id
        THEN <<[artikel_id |-> current_df[i].artikel_id,
                artikelnummer |-> ArtikelNummer(current_df[i].artikel_id),
                status_current |-> current_df[i].status,
                status_previous |-> previous_df[i].status]>>
        ELSE << >>
  IN  ConcatAll([i \in 1..Len(current_df) |-> rowsFor(i)])

\* pd.merge(current_status, previous_status, on='artikel_id', how='inner'):
\* the rows of the left frame in their order, each with every row of the right
\* frame that has its artikel_id.
InnerMergeOnArtikel(current_df, previous_df) ==
  LET rowsFor(l) ==
        LET R == SelectSeq(previous_df, LAMBDA x : x.artikel_id = l.artikel_id)
        IN  [j \in 1..Len(R) |->
               [artikel_id |-> l.artikel_id,
                artikelnummer |-> ArtikelNummer(l.artikel_id),
                status_current |-> l.status,
                status_previous |-> R[j].status]]
  IN  ConcatAll([i \in 1..Len(current_df) |-> rowsFor(current_df[i])])

\* Mutant of IsDeactivated: any change of status.
IsDeactivated_AnyChange(row) == row.status_previous # row.status_current

IsDeactivated(row) == row.status_previous = "aktiv" /\ row.status_current = "inaktiv"

\* ReportGenerator._detect_deactivations: a list without rows gives a frame
\* without columns, and selecting the columns raises KeyError.
detect_deactivations_report(current, previous) ==
  IF current = << >> \/ previous = << >>
  THEN [kind |-> "KeyError", rows |-> << >>]
  ELSE [kind |-> "ok",
        rows |-> SelectSeq(InnerMergeOnArtikel(current, previous), IsDeactivated)]

\* InventoryTracker.detect_deactivations: the same, after a check of the
\* columns that answers [] for a frame without them; written to
\* deactivations_<today>.json.
detect_deactivations(current, previous) ==
  IF current = << >> \/ previous = << >>
  THEN [rows |-> << >>, file |-> << >>]
  ELSE [rows |-> SelectSeq(InnerMergeOnArtikel(current, previous), IsDeactivated),
        file |-> <<"deactivations">>]

(***************************************************************************)
(* The computations on in-memory snapshots.  current_data and              *)
(* previous_data are the two lists handed to an operation, op names the    *)
(* operation that has run, merged is its joined frame and result what it   *)
(* returned.                                                               *)
(***************************************************************************)
VARIABLES current_data, previous_data, highlight_threshold, op, merged, result, written

computeVars ==
  <<current_data, previous_data, highlight_threshold, op, merged, result, written>>

\* The scheduler's fields and job store; consecutive_failures counts the
\* executions of execute_task that failed since the last one that succeeded.
VARIABLES now, current_task_id, task_failures, jobs, notified, daily_fired,
          consecutive_failures, executions, last_return

schedVars == <<now, current_task_id, task_failures, jobs, notified, daily_fired,
               consecutive_failures, executions, last_return>>

\* The snapshot directory and the threads working on it; first_stored keeps,
\* for each date, the first snapshot completely written for it.
VARIABLES today, stamp, files, writer, observed, first_stored, track_return

storeVars == <<today, stamp, files, writer, observed, first_stored, track_return>>

\* The arguments and the answer of generate_trend_report.
VARIABLES trend_args, trend_report

trendVars == <<trend_args, trend_report>>

\* The argument and the answer of format_report_data.
VARIABLES report_data, format_type, formatted

formatVars == <<report_data, format_type, formatted>>

\* DatabaseManager.handle_connection_error at work: the calls of it that have
\* not returned (innermost last), the connections tried since the outermost
\* call began, whether a test of the connection has succeeded, and how the
\* outermost call ended.
VARIABLES db_stack, db_attempts, db_tested, db_outcome

dbVars == <<db_stack, db_attempts, db_tested, db_outcome>>

\* The cache directory of the QueryExecutor, its clock, and the last call of
\* execute_query.
VARIABLES cache_now, cache, query_call

queryVars == <<cache_now, cache, query_call>>

vars == <<computeVars, schedVars, storeVars, trendVars, formatVars, dbVars, queryVars>>

NoResult == [kind |-> "none"]

\* A file that does not exist, and a file holding a complete document.
AbsentFile ==
  [exists |-> FALSE, stamp |-> 0, data |-> << >>, flushed |-> 0, closed |-> TRUE]

Document(timestamp, data) ==
  [exists |-> TRUE, stamp |-> timestamp, data |-> data,
   flushed |-> Len(data), closed |-> TRUE]

\* InventoryTracker.data_path, the directory of the snapshots and of the
\* tracker's reports, and the default of ReportGenerator.export_path.
data_path == "data/inventory"
export_path == "./reports"

\* The variables of the snapshot directory other than files.
storeOthers == <<today, stamp, writer, observed, first_stored, track_return>>

\* Mutant of WriteFile: every name that starts with 'inventory' is taken for
\* the snapshot of the date.
WriteFile_PrefixMatch(fs, directory, stem, day, data) ==
  IF directory = data_path /\ stem \in {"inventory", "inventory_changes"}
     /\ day \in DOMAIN fs
  THEN [fs EXCEPT ![day] = Document(fs[day].stamp, data)]
  ELSE fs

\* with open(os.path.join(directory, f"{stem}_{day}.json"), 'w') as f:
\* json.dump(...), seen from the snapshot files fs of data_path: the snapshot
\* of a date is the file data_path/inventory_<date>.json and no other.
WriteFile(fs, directory, stem, day, data) ==
  IF directory = data_path /\ stem = "inventory" /\ day \in DOMAIN fs
  THEN [fs EXCEPT ![day] = Document(fs[day].stamp, data)]
  ELSE fs

\* The parts of the program that are not running.
IdleCompute ==
  /\ current_data = << >>
  /\ previous_data = << >>
  /\ highlight_threshold = 10
  /\ op = "none"
  /\ merged = << >>
  /\ result = NoResult
  /\ written = << >>

IdleScheduler ==
  /\ now = 1
  /\ current_task_id = 0
  /\ task_failures = << >>
  /\ jobs = {}
  /\ notified = {}
  /\ daily_fired = FALSE
  /\ consecutive_failures = 0
  /\ executions = 0
  /\ last_return = FALSE

IdleStore ==
  /\ today = FirstDay
  /\ stamp = 0
  /\ files = << >>
  /\ writer = [pc |-> "idle", day |-> 0]
  /\ observed = [kind |-> "none", day |-> 0, saw |-> AbsentFile, ret |-> << >>]
  /\ first_stored = << >>
  /\ track_return = "none"

IdleTrend ==
  /\ trend_args = NoResult
  /\ trend_report = NoResult

IdleFormat ==
  /\ report_data = NoResult
  /\ format_type = "table"
  /\ formatted = NoResult

IdleDatabase ==
  /\ db_stack = << >>
  /\ db_attempts = 0
  /\ db_tested = FALSE
  /\ db_outcome = "idle"

IdleQuery ==
  /\ cache_now = 0
  /\ cache = << >>
  /\ query_call = NoResult

\* ReportGenerator._calculate_changes(current_data, previous_data)
CalculateChanges ==
  /\ op = "none"
  /\ LET r == calculate_changes(current_data, previous_data, highlight_threshold)
     IN  /\ merged' = r.merged
         /\ result' = r.report
  /\ op' = "_calculate_changes"
  /\ UNCHANGED <<current_data, previous_data, highlight_threshold, written>>
  /\ UNCHANGED <<schedVars, storeVars, trendVars, formatVars, dbVars, queryVars>>

\* InventoryTracker.compare_inventory_levels(current_data, previous_data)
CompareInventoryLevels ==
  /\ op = "none"
  /\ LET r == compare_inventory_levels(current_data, previous_data, highlight_threshold)
     IN  /\ merged' = r.merged
         /\ result' = r.report
         /\ written' = r.file
         /\ files' = IF r.file = << >> THEN files
                      ELSE WriteFile(files, data_path, "inventory_changes", today,
                                     r.report.details)
  /\ op' = "compare_inventory_levels"
  /\ UNCHANGED <<current_data, previous_data, highlight_threshold>>
  /\ UNCHANGED <<schedVars, storeOthers, trendVars, formatVars, dbVars, queryVars>>

\* InventoryTracker.detect_zero_inventory(current_data); the list is also
\* written to zero_inventory_<today>.json.
DetectZeroInventory ==
  /\ op = "none"
  /\ result' = [kind |-> "list", items |-> detect_zero_inventory(current_data)]
  /\ written' = <<"zero_inventory">>
  /\ files' = WriteFile(files, data_path, "zero_inventory", today,
                        detect_zero_inventory(current_data))
  /\ op' = "detect_zero_inventory"
  /\ UNCHANGED <<current_data, previous_data, highlight_threshold, merged>>
  /\ UNCHANGED <<schedVars, storeOthers, trendVars, formatVars, dbVars, queryVars>>

\* Mutant of daily_report: the comparisons are made without looking whether
\* there is previous data.
daily_report_AlwaysCompares(current, previous, threshold) ==
  [changes |-> calculate_changes(current, previous, threshold).report,
   deactivations |-> detect_deactivations_report(current, previous).rows]
  @@ [kind |-> "report",
      total_articles  |-> Len(current),
      active_articles |-> Cardinality({i \in 1..Len(current) : current[i].status = "aktiv"}),
      zero_inventory  |-> report_zero_inventory(current)]

\* ReportGenerator.generate_daily_report, with current_data and previous_data
\* what retrieve_historical_data answered for the report date and the day
\* before: None without current data; 'changes' and 'deactivations' only with
\* previous data; the report is written to daily_report_<date>.json.
daily_report(current, previous, threshold) ==
  LET base == [kind |-> "report",
               total_articles  |-> Len(current),
               active_articles |-> Cardinality({i \in 1..Len(current) : current[i].status = "aktiv"}),
               zero_inventory  |-> report_zero_inventory(current)]
  IN  IF previous = << >> THEN base
      ELSE [changes |-> calculate_changes(current, previous, threshold).report,
            deactivations |-> detect_deactivations_report(current, previous).rows]
           @@ base

GenerateDailyReport ==
  /\ op = "none"
  /\ IF current_data = << >>
     THEN result' = [kind |-> "None"] /\ written' = << >> /\ files' = files
     ELSE /\ result' = daily_report(current_data, previous_data, highlight_threshold)
          /\ written' = <<"daily_report">>
          /\ files' = WriteFile(files, export_path, "daily_report", today, current_data)
  /\ op' = "generate_daily_report"
  /\ UNCHANGED <<current_data, previous_data, highlight_threshold, merged>>
  /\ UNCHANGED <<schedVars, storeOthers, trendVars, formatVars, dbVars, queryVars>>

\* Snapshot pairs for the change computation: every article aktiv.
InitChanges ==
  /\ current_data \in SnapshotsOf(Quantities, {"aktiv"})
  /\ previous_data \in SnapshotsOf(Quantities, {"aktiv"})
  /\ highlight_threshold \in Thresholds
  /\ op = "none"
  /\ merged = << >>
  /\ result = NoResult
  /\ written = << >>
  /\ IdleScheduler /\ IdleStore /\ IdleTrend
  /\ IdleFormat /\ IdleDatabase /\ IdleQuery

NextChanges == CalculateChanges \/ CompareInventoryLevels

SpecChanges == InitChanges /\ [][NextChanges]_vars

\* Snapshot pairs for the detectors: both statuses, stock zero or not.
InitDetect ==
  /\ current_data \in SnapshotsOf({0, 10}, Statuses)
  /\ previous_data \in SnapshotsOf({0, 10}, Statuses)
  /\ highlight_threshold = 10
  /\ op = "none"
  /\ merged = << >>
  /\ result = NoResult
  /\ written = << >>
  /\ IdleScheduler /\ IdleStore /\ IdleTrend
  /\ IdleFormat /\ IdleDatabase /\ IdleQuery

NextDetect == DetectZeroInventory \/ GenerateDailyReport

SpecDetect == InitDetect /\ [][NextDetect]_vars

(***************************************************************************)
(* Properties of the change computation and of the zero-stock detector.    *)
(***************************************************************************)
KeyPairs(s) == {<<s[i].artikel_id, s[i].lager_id>> : i \in 1..Len(s)}

ChangesRan == op \in {"_calculate_changes", "compare_inventory_levels"}

\* Both lists hold rows, as every stored snapshot does.
BothGiven == current_data # << >> /\ previous_data # << >>

SignificantList ==
  IF op = "_calculate_changes" THEN result.significant_changes ELSE result.details

RowsWithKey(rec) ==
  {j \in 1..Len(merged) :
     merged[j].key = Str(rec.artikel_id) \o <<95>> \o Str(rec.lager_id)}

\* C5: the change computation is an outer join on (artikel_id, lager_id): for
\* snapshots with no common key every record of either snapshot gives exactly
\* one joined row, with bestand_previous = 0 for a row only in current and
\* bestand_current = 0 for a row only in previous; no row is dropped.
C5_OuterJoinKeepsEveryRow ==
  (ChangesRan /\ BothGiven /\ KeyPairs(current_data) \cap KeyPairs(previous_data) = {})
  => /\ Len(merged) = Len(current_data) + Len(previous_data)
     /\ \A i \in 1..Len(current_data) :
          /\ Cardinality(RowsWithKey(current_data[i])) = 1
          /\ \A j \in RowsWithKey(current_data[i]) :
               /\ merged[j].bestand_current = current_data[i].bestand
               /\ merged[j].bestand_previous = 0
     /\ \A i \in 1..Len(previous_data) :
          /\ Cardinality(RowsWithKey(previous_data[i])) = 1
          /\ \A j \in RowsWithKey(previous_data[i]) :
               /\ merged[j].bestand_current = 0
               /\ merged[j].bestand_previous = previous_data[i].bestand

C5_Witness ==
  /\ op = "_calculate_changes" /\ BothGiven
  /\ KeyPairs(current_data) \cap KeyPairs(previous_data) = {}
  /\ Len(current_data) = 2
  /\ Len(merged) = 3

\* C6: for every joined row, change = bestand_current - bestand_previous and
\* change_percent = change / d * 100 with d = bestand_previous, or 1 when that
\* is 0, so that nothing is divided by zero; current 0 against previous 50
\* gives change -50 and change_percent -100.
C6_DeltaAndPercent ==
  (ChangesRan /\ BothGiven)
  => /\ \A j \in 1..Len(merged) :
          LET row == merged[j]
              d   == IF row.bestand_previous = 0 THEN 1 ELSE row.bestand_previous
          IN  /\ row.change = row.bestand_current - row.bestand_previous
              /\ row.change_percent = FloatMulInt(FloatDiv(row.change, d), 100)
              /\ row.change_percent.kind \in {"zero", "num"}
              /\ (row.bestand_current = 0 /\ row.bestand_previous = 50)
                   => row.change = -50 /\ row.change_percent = FloatOfInt(-100)
     /\ \A i \in 1..Len(current_data) : \A k \in 1..Len(previous_data) :
          (current_data[i].artikel_id = previous_data[k].artikel_id
           /\ current_data[i].lager_id = previous_data[k].lager_id)
          => \E j \in RowsWithKey(current_data[i]) :
               /\ merged[j].bestand_current = current_data[i].bestand
               /\ merged[j].bestand_previous = previous_data[k].bestand

C6_Witness ==
  /\ op = "_calculate_changes"
  /\ \E i \in 1..Len(current_data) : \E k \in 1..Len(previous_data) :
       /\ KeyPairs(<<current_data[i]>>) = KeyPairs(<<previous_data[k]>>)
       /\ current_data[i].bestand = 0 /\ previous_data[k].bestand = 50
  /\ \E j \in 1..Len(merged) :
       merged[j].bestand_previous = 0 /\ merged[j].change = 11

\* C7: the list of significant changes holds exactly the joined rows with
\* |change_percent| >= threshold: every listed row meets the threshold, a row
\* exactly at it is listed, and no joined row that meets it is left out.
C7_SignificantExactly ==
  (ChangesRan /\ BothGiven)
  => LET meets(r) == FloatGE(FloatAbs(r.change_percent), FloatOfInt(highlight_threshold))
         sig      == SignificantList
     IN  /\ \A k \in 1..Len(sig) : meets(sig[k]) /\ \E j \in 1..Len(merged) : merged[j] = sig[k]
         /\ \A j \in 1..Len(merged) : meets(merged[j]) => \E k \in 1..Len(sig) : sig[k] = merged[j]
         /\ Len(sig) = Cardinality({j \in 1..Len(merged) : meets(merged[j])})
         /\ op = "compare_inventory_levels" => result.significant_changes = Len(sig)

C7_Witness ==
  /\ op = "_calculate_changes" /\ BothGiven
  /\ \E k \in 1..Len(result.significant_changes) :
       /\ result.significant_changes[k].change_percent = FloatOfInt(highlight_threshold)
       /\ result.significant_changes[k].change = 1
  /\ Len(result.significant_changes) < Len(merged)

\* C8: a snapshot (its keys unique) compared with itself gives change = 0 for
\* every key and no significant change, for every threshold > 0.
C8_SelfComparison ==
  (ChangesRan /\ BothGiven /\ current_data = previous_data)
  => /\ Len(merged) = Len(current_data)
     /\ \A i \in 1..Len(current_data) : RowsWithKey(current_data[i]) # {}
     /\ \A j \in 1..Len(merged) : merged[j].change = 0
     /\ SignificantList = << >>

C8_Witness ==
  /\ op = "_calculate_changes"
  /\ current_data = previous_data
  /\ Len(current_data) = 2
  /\ current_data[1].artikel_id = current_data[2].artikel_id
  /\ current_data[1].bestand = 0 /\ current_data[2].bestand = 50
  /\ highlight_threshold = 10

\* C9: the counts of the change report agree with the joined rows:
\* total_items is their number, increased, decreased and unchanged count the
\* rows with change > 0, < 0 and = 0 and add up to total_items, and every
\* significant row is a joined row.
C9_CountsConsistent ==
  (op = "_calculate_changes" /\ BothGiven)
  => /\ result.kind = "changes"
     /\ result.total_items = Len(merged)
     /\ result.total_items = Cardinality(KeyPairs(current_data) \cup KeyPairs(previous_data))
     /\ result.increased = Cardinality({j \in 1..Len(merged) : merged[j].change > 0})
     /\ result.decreased = Cardinality({j \in 1..Len(merged) : merged[j].change < 0})
     /\ result.unchanged = Cardinality({j \in 1..Len(merged) : merged[j].change = 0})
     /\ result.increased + result.decreased + result.unchanged = result.total_items
     /\ \A k \in 1..Len(result.significant_changes) :
          \E j \in 1..Len(merged) : merged[j] = result.significant_changes[k]

C9_Witness ==
  /\ op = "_calculate_changes" /\ BothGiven
  /\ result.increased = 1 /\ result.decreased = 1 /\ result.unchanged = 1
  /\ Len(result.significant_changes) = 2

\* C10: the zero-stock detector returns only records that are aktiv with
\* bestand 0, and every such record of the snapshot exactly once; an empty
\* snapshot gives an empty list and no error.
C10_ZeroStockExactly ==
  /\ op = "detect_zero_inventory"
     => /\ result.kind = "list"
        /\ \A k \in 1..Len(result.items) :
             result.items[k].status = "aktiv" /\ result.items[k].bestand = 0
        /\ \A i \in 1..Len(current_data) :
             Cardinality({k \in 1..Len(result.items) : result.items[k] = current_data[i]})
               = IF current_data[i].status = "aktiv" /\ current_data[i].bestand = 0
                 THEN 1 ELSE 0
        /\ \A k \in 1..Len(result.items) :
             \E i \in 1..Len(current_data) : current_data[i] = result.items[k]
        /\ current_data = << >> => result.items = << >>
  /\ (op = "generate_daily_report" /\ current_data # << >>)
     => /\ result.kind = "report"
        /\ \A i \in 1..Len(current_data) :
             Cardinality({k \in 1..Len(result.zero_inventory) :
                            /\ result.zero_inventory[k].artikel_id = current_data[i].artikel_id
                            /\ result.zero_inventory[k].lager_id = current_data[i].lager_id})
               = IF current_data[i].status = "aktiv" /\ current_data[i].bestand = 0
                 THEN 1 ELSE 0
        /\ \A k \in 1..Len(result.zero_inventory) :
             \E i \in 1..Len(current_data) :
                /\ result.zero_inventory[k].artikel_id = current_data[i].artikel_id
                /\ result.zero_inventory[k].lager_id = current_data[i].lager_id

C10_Witness ==
  /\ op = "detect_zero_inventory"
  /\ Len(result.items) = 1
  /\ \E i \in 1..Len(current_data) :
       current_data[i].bestand = 0 /\ current_data[i].status = "inaktiv"

(***************************************************************************)
(* The task scheduler.  now is the clock in the resolution of the task id  *)
(* (one second); between two instants any amount of time may have passed.  *)
(* jobs is the job store of the background scheduler without the daily     *)
(* cron job: interval jobs, which fire again and again once time has moved *)
(* on and are never removed by the program.                                *)
(***************************************************************************)
retry_attempts == 3
retry_interval == 10

TrackResults == {"True", "False", "raise"}

\* task_id = f"task_{datetime.now().strftime('%Y%m%d%H%M%S')}"
TaskId(t) == t

\* TaskScheduler.retry_failed_task: an interval job named after the task id
\* and the attempt, replacing a job of that name.
retry_failed_task(js, failures, task_id, t) ==
  LET current_attempt == failures[task_id]
      wait_time       == retry_interval * current_attempt
      job == [id |-> <<task_id, current_attempt>>, minutes |-> wait_time, since |-> t]
  IN  {j \in js : j.id # job.id} \cup {job}

\* self.task_failures after handle_task_failure has counted the failure.
CountFailure(failures, task_id) ==
  IF task_id \in DOMAIN failures
  THEN [failures EXCEPT ![task_id] = @ + 1]
  ELSE [x \in DOMAIN failures \cup {task_id} |->
          IF x = task_id THEN 1 ELSE failures[x]]

\* TaskScheduler.execute_task with handle_task_failure, on the job store js:
\* track_daily_inventory answers res.
execute_task(js, res) ==
  LET task_id == TaskId(now)
  IN  /\ current_task_id' = task_id
      /\ executions' = executions + 1
      /\ IF res = "True"
         THEN /\ notified' = notified \cup {<<task_id, "success">>}
              /\ jobs' = js
              /\ last_return' = TRUE
              /\ UNCHANGED task_failures
         ELSE LET failures == CountFailure(task_failures, task_id)
              IN  /\ task_failures' = failures
                  /\ last_return' = FALSE
                  /\ IF failures[task_id] < retry_attempts
                     THEN /\ jobs' = retry_failed_task(js, failures, task_id, now)
                          /\ UNCHANGED notified
                     ELSE /\ notified' = notified \cup {<<task_id, "failed">>}
                          /\ jobs' = js

\* The cron job 'daily_inventory_task' fires.
DailyTrigger ==
  /\ ~daily_fired
  /\ executions < MaxExecutions
  /\ daily_fired' = TRUE
  /\ \E res \in TrackResults :
       /\ execute_task(jobs, res)
       /\ consecutive_failures' = IF res = "True" THEN 0 ELSE consecutive_failures + 1
  /\ UNCHANGED now
  /\ UNCHANGED <<computeVars, storeVars, trendVars, formatVars, dbVars, queryVars>>

\* A retry job fires: an interval trigger fires first one interval after it
\* was added and then every interval, so not in the second it was set.
RetryJobFires ==
  /\ executions < MaxExecutions
  /\ \E j \in jobs :
       /\ now > j.since
       /\ \E res \in TrackResults :
            /\ execute_task((jobs \ {j}) \cup {[j EXCEPT !.since = now]}, res)
            /\ consecutive_failures' = IF res = "True" THEN 0 ELSE consecutive_failures + 1
  /\ UNCHANGED <<now, daily_fired>>
  /\ UNCHANGED <<computeVars, storeVars, trendVars, formatVars, dbVars, queryVars>>

\* MainWindow.execute_task_now: the user runs the task by hand.
ExecuteTaskNow ==
  /\ executions < MaxExecutions
  /\ \E res \in TrackResults :
       /\ execute_task(jobs, res)
       /\ consecutive_failures' = IF res = "True" THEN 0 ELSE consecutive_failures + 1
  /\ UNCHANGED <<now, daily_fired>>
  /\ UNCHANGED <<computeVars, storeVars, trendVars, formatVars, dbVars, queryVars>>

\* Time passes.
Tick ==
  /\ now < MaxTime
  /\ now' = now + 1
  /\ UNCHANGED <<current_task_id, task_failures, jobs, notified, daily_fired,
                 consecutive_failures, executions, last_return>>
  /\ UNCHANGED <<computeVars, storeVars, trendVars, formatVars, dbVars, queryVars>>

InitScheduler == IdleScheduler /\ IdleCompute /\ IdleStore /\ IdleTrend
                 /\ IdleFormat /\ IdleDatabase /\ IdleQuery

NextScheduler == DailyTrigger \/ RetryJobFires \/ ExecuteTaskNow \/ Tick

SpecScheduler == InitScheduler /\ [][NextScheduler]_vars

\* C1: a day's run makes a bounded number of attempts: after the
\* retry_attempts-th consecutive failure of execute_task the run is reported
\* as 'failed' and no retry remains scheduled.
C1_BoundedAttempts ==
  consecutive_failures >= retry_attempts
    => /\ \E t \in 1..MaxTime : <<TaskId(t), "failed">> \in notified
       /\ jobs = {}

(***************************************************************************)
(* The snapshot directory.  files maps a date to inventory_<date>.json: a  *)
(* file record holds the document being written, the number of its records *)
(* that have reached the file, and whether the writer has closed it.  A    *)
(* file that is open for writing holds a proper prefix of the document.    *)
(***************************************************************************)
max_data_age == 90

\* The dates of the directory: two expired dates, yesterday, and the days
\* the program runs on.
Days == {FirstDay - max_data_age - 1, FirstDay - max_data_age, FirstDay - 1}
          \cup (FirstDay..LastDay)

\* What the inventory query can answer.
QueryResults == SnapshotsOf({10}, {"aktiv"})

\* The snapshot of a file that was there before the program started.
OldData == <<[artikel_id |-> 1, lager_id |-> 1, bestand |-> 10, status |-> "aktiv"]>>

\* InventoryTracker.retrieve_historical_data(date) on the directory fs:
\* [] without the file, [] when json.load raises on an incomplete document,
\* else the document's 'data'.
retrieve_historical_data(fs, date) ==
  IF date \notin DOMAIN fs \/ ~fs[date].exists
  THEN [kind |-> "not_found", ret |-> << >>]
  ELSE IF ~fs[date].closed
  THEN [kind |-> "error", ret |-> << >>]
  ELSE [kind |-> "loaded", ret |-> fs[date].data]

\* The file <stem>_<date>.json of data_path.
FileName(stem, date) == [stem |-> stem, date |-> date]

\* The test of _clean_old_data on one entry of the directory, run at some
\* time of the date day: the name is inventory_<rest>.json, <rest> parses as a
\* date (the rest 'changes_<date>' of a change report does not), and that
\* date at midnight lies before now - max_data_age days.
Expired(name, day) ==
  /\ name.stem = "inventory"
  /\ name.date <= day - max_data_age

\* InventoryTracker._clean_old_data on the date day: every snapshot file
\* whose date (at midnight) lies before now - max_data_age days is removed.
clean_old_data(fs, day) ==
  [d \in DOMAIN fs |->
     IF Expired(FileName("inventory", d), day) THEN AbsentFile ELSE fs[d]]

\* The GUI and the report generator read a snapshot.
RetrieveHistoricalData ==
  /\ \E date \in {today - 1, today} :
       LET r == retrieve_historical_data(files, date)
       IN  observed' = [kind |-> r.kind, day |-> date, ret |-> r.ret,
                        saw |-> IF date \in DOMAIN files THEN files[date] ELSE AbsentFile]
  /\ UNCHANGED <<today, stamp, files, writer, first_stored, track_return>>
  /\ UNCHANGED <<computeVars, schedVars, trendVars, formatVars, dbVars, queryVars>>

\* The report files one run of track_daily_inventory writes before it stores
\* the snapshot: the comparison and the deactivations only with data of
\* yesterday, the zero stock always.
track_reports(inventory_data, yesterday_data, threshold) ==
  (IF yesterday_data # << >>
   THEN compare_inventory_levels(inventory_data, yesterday_data, threshold).file
        \o detect_deactivations(inventory_data, yesterday_data).file
   ELSE << >>)
  \o <<"zero_inventory">>

\* InventoryTracker.track_daily_inventory up to the open(filename, 'w') of
\* store_daily_data: the query; False without rows; else the reports on
\* yesterday's snapshot (which write no snapshot file) and the snapshot file
\* of today created or cut to length zero.
TrackDailyInventory ==
  /\ writer.pc = "idle"
  /\ stamp < MaxStores
  /\ \E inventory_data \in QueryResults :
       IF inventory_data = << >>
       THEN /\ track_return' = "False"
            /\ written' = << >>
            /\ UNCHANGED <<stamp, files, writer>>
       ELSE /\ stamp' = stamp + 1
            /\ written' = track_reports(inventory_data,
                                        retrieve_historical_data(files, today - 1).ret,
                                        highlight_threshold)
            /\ files' = [files EXCEPT ![today] =
                           [exists |-> TRUE, stamp |-> stamp + 1, data |-> inventory_data,
                            flushed |-> 0, closed |-> FALSE]]
            /\ writer' = [pc |-> "writing", day |-> today]
            /\ track_return' = "none"
  /\ UNCHANGED <<today, observed, first_stored>>
  /\ UNCHANGED <<current_data, previous_data, highlight_threshold, op, merged, result>>
  /\ UNCHANGED <<schedVars, trendVars, formatVars, dbVars, queryVars>>

\* json.dump: the write buffer is flushed to the file.
StoreFlush ==
  /\ writer.pc = "writing"
  /\ files[writer.day].flushed < Len(files[writer.day].data)
  /\ files' = [files EXCEPT ![writer.day].flushed = @ + 1]
  /\ UNCHANGED <<today, stamp, writer, observed, first_stored, track_return>>
  /\ UNCHANGED <<computeVars, schedVars, trendVars, formatVars, dbVars, queryVars>>

\* The file is closed, _clean_old_data runs, store_daily_data and then
\* track_daily_inventory return True.
StoreFinish ==
  /\ writer.pc = "writing"
  /\ LET doc == Document(files[writer.day].stamp, files[writer.day].data)
     IN  /\ files' = clean_old_data([files EXCEPT ![writer.day] = doc], today)
         /\ first_stored' = IF first_stored[writer.day].exists THEN first_stored
                            ELSE [first_stored EXCEPT ![writer.day] = doc]
  /\ writer' = [pc |-> "idle", day |-> 0]
  /\ track_return' = "True"
  /\ UNCHANGED <<today, stamp, observed>>
  /\ UNCHANGED <<computeVars, schedVars, trendVars, formatVars, dbVars, queryVars>>

\* Midnight.
NextDay ==
  /\ today < LastDay
  /\ today' = today + 1
  /\ UNCHANGED <<stamp, files, writer, observed, first_stored, track_return>>
  /\ UNCHANGED <<computeVars, schedVars, trendVars, formatVars, dbVars, queryVars>>

InitStore ==
  /\ today = FirstDay
  /\ stamp = 0
  /\ files \in [Days -> {AbsentFile, Document(0, OldData)}]
  /\ \A d \in FirstDay..LastDay : ~files[d].exists
  /\ first_stored = files
  /\ writer = [pc |-> "idle", day |-> 0]
  /\ observed = [kind |-> "none", day |-> 0, saw |-> AbsentFile, ret |-> << >>]
  /\ track_return = "none"
  /\ IdleCompute /\ IdleScheduler /\ IdleTrend
  /\ IdleFormat /\ IdleDatabase /\ IdleQuery

NextStore ==
  TrackDailyInventory \/ StoreFlush \/ StoreFinish \/ RetrieveHistoricalData \/ NextDay

SpecStore == InitStore /\ [][NextStore]_vars

\* C2: writing the daily snapshot is one atomic replace: what a reader of
\* date D finds is no file or a complete document, the old or the new one,
\* never a partially written one, and it returns that document's data.
C2_AtomicReplace ==
  observed.kind # "none"
    => /\ ~observed.saw.exists \/ observed.saw.closed
       /\ observed.ret = observed.saw.data

\* C3: a snapshot is created once per date and never mutated: as long as it
\* is date D, the snapshot stored for D holds the data first stored for D.
C3_WriteOnce ==
  \A d \in Days :
    (d = today /\ first_stored[d].exists /\ files[d].exists /\ files[d].closed)
      => files[d].data = first_stored[d].data

(***************************************************************************)
(* The trend report over the snapshot directory.                           *)
(***************************************************************************)
NoCategory == ""
Categories == {"A", "B"}

\* The snapshots of the trend directory: stock lines of warehouse 1.
TrendSnapshots ==
  {s \in SnapshotsOf({0, 10}, Statuses) : \A i \in 1..Len(s) : s[i].lager_id = 1}

\* Mutant of DatesWithData: every date of the range.
DatesWithData_All(fs, start, end) ==
  IF start > end THEN << >> ELSE [i \in 1..(end - start + 1) |-> start + i - 1]

\* The dates of start..end that have data, ascending.
RECURSIVE DatesWithData(_, _, _)
DatesWithData(fs, start, end) ==
  IF start > end THEN << >>
  ELSE (IF retrieve_historical_data(fs, start).ret # << >> THEN <<start>> ELSE << >>)
       \o DatesWithData(fs, start + 1, end)

\* inventory_data of generate_trend_report: date -> rows, in date order.
InventoryData(fs, start, end) ==
  LET dates == DatesWithData(fs, start, end)
  IN  [dates |-> dates,
       data  |-> [d \in {dates[i] : i \in 1..Len(dates)} |->
                    retrieve_historical_data(fs, d).ret]]

\* The rows of s whose article is of the category, in their order.
RowsOfCategory(s, category) ==
  SelectSeq(s, LAMBDA item : Kategorie(item.artikel_id) = category)

\* The category filter of generate_trend_report.
FilterCategory(inv, category) ==
  [dates |-> inv.dates,
   data  |-> [d \in DOMAIN inv.data |-> RowsOfCategory(inv.data[d], category)]]

RECURSIVE SumOver(_, _)
SumOver(f, S) ==
  IF S = {} THEN 0
  ELSE LET x == CHOOSE y \in S : TRUE IN f[x] + SumOver(f, S \ {x})

\* Mutant of Times105: ten per cent.
Times105_TenPercent(n) == IF n = 0 THEN FZero ELSE FloatMulInt(FloatDiv(110, 100), n)

\* n * 1.05 and n * 0.95 in float64.
Times105(n) == IF n = 0 THEN FZero ELSE FloatMulInt(FloatDiv(105, 100), n)
Times095(n) == IF n = 0 THEN FZero ELSE FloatMulInt(FloatDiv(95, 100), n)

\* ReportGenerator._generate_trend_summary(inventory_data)
generate_trend_summary(inv) ==
  LET keys   == DOMAIN inv.data
      total  == [d \in keys |-> Len(inv.data[d])]
      active == [d \in keys |->
                   Cardinality({i \in 1..Len(inv.data[d]) : inv.data[d][i].status = "aktiv"})]
      zero   == [d \in keys |->
                   Cardinality({i \in 1..Len(inv.data[d]) :
                                  /\ inv.data[d][i].bestand = 0
                                  /\ inv.data[d][i].status = "aktiv"})]
      active_first == active[inv.dates[1]]
      active_last  == active[inv.dates[Len(inv.dates)]]
  IN  [dates |-> inv.dates,
       total_articles  |-> total,
       active_articles |-> active,
       zero_inventory  |-> zero,
       avg_articles_per_day |->
         IF keys # {} THEN FloatDiv(SumOver(total, keys), Cardinality(keys)) ELSE FZero,
       trend |->
         IF Len(inv.dates) > 1
         THEN IF ~FloatGE(Times105(active_first), FloatOfInt(active_last))
              THEN "increasing"
              ELSE IF ~FloatGE(FloatOfInt(active_last), Times095(active_first))
              THEN "decreasing"
              ELSE "stable"
         ELSE "stable"]

\* ReportGenerator.generate_trend_report(start_date, end_date, category):
\* None without data in the range; else the summary of the rows as read,
\* then the category filter, the charts drawn from the filtered rows, and
\* the report written to trend_report_<start>_to_<end>.json.
GenerateTrendReport ==
  /\ trend_report.kind = "none"
  /\ \E start_date \in 1..TrendDays, end_date \in 1..TrendDays,
        category \in Categories \cup {NoCategory} :
       LET inventory_data == InventoryData(files, start_date, end_date)
       IN  /\ trend_args' = [start_date |-> start_date, end_date |-> end_date,
                             category |-> category]
           /\ trend_report' =
                IF inventory_data.dates = << >> THEN [kind |-> "None"]
                ELSE [kind |-> "report",
                      start_date |-> start_date,
                      end_date   |-> end_date,
                      summary    |-> generate_trend_summary(inventory_data),
                      category   |-> category,
                      charts     |-> IF category # NoCategory
                                     THEN FilterCategory(inventory_data, category).data
                                     ELSE inventory_data.data,
                      file       |-> <<"trend_report", start_date, end_date>>]
           /\ files' = IF inventory_data.dates = << >> THEN files
                        ELSE WriteFile(files, export_path, "trend_report", start_date,
                                       inventory_data.dates)
  /\ UNCHANGED <<computeVars, schedVars, storeOthers, formatVars, dbVars, queryVars>>

InitTrend ==
  /\ today = TrendDays
  /\ stamp = 0
  /\ files \in [1..TrendDays -> {AbsentFile} \cup {Document(0, s) : s \in TrendSnapshots \ {<< >>}}]
  /\ first_stored = files
  /\ writer = [pc |-> "idle", day |-> 0]
  /\ observed = [kind |-> "none", day |-> 0, saw |-> AbsentFile, ret |-> << >>]
  /\ track_return = "none"
  /\ IdleTrend
  /\ IdleFormat /\ IdleDatabase /\ IdleQuery
  /\ IdleCompute /\ IdleScheduler

NextTrend == GenerateTrendReport

SpecTrend == InitTrend /\ [][NextTrend]_vars

\* The rows of the report's range restricted to the category asked for.
FilteredInventoryData ==
  FilterCategory(InventoryData(files, trend_args.start_date, trend_args.end_date),
                 trend_args.category)

\* C4: with a category filter, every statistic of the returned summary
\* (total, active and zero-stock count per date, average, trend label) is
\* computed from the records of that category only.
C4_SummaryOfCategoryOnly ==
  (trend_report.kind = "report" /\ trend_args.category # NoCategory)
    => trend_report.summary = generate_trend_summary(FilteredInventoryData)

(***************************************************************************)
(* The deactivation detector on pairs of snapshots: both statuses, article *)
(* 1 with one or two stock lines, either list possibly empty.  A call may  *)
(* be repeated on the same pair.                                           *)
(***************************************************************************)

\* ReportGenerator._detect_deactivations(current_data, previous_data)
DetectDeactivationsReport ==
  /\ op \in {"none", "_detect_deactivations"}
  /\ result' = detect_deactivations_report(current_data, previous_data)
  /\ op' = "_detect_deactivations"
  /\ UNCHANGED <<current_data, previous_data, highlight_threshold, merged, written>>
  /\ UNCHANGED <<schedVars, storeVars, trendVars, formatVars, dbVars, queryVars>>

\* InventoryTracker.detect_deactivations(current_data, previous_data)
DetectDeactivations ==
  /\ op \in {"none", "detect_deactivations"}
  /\ LET r == detect_deactivations(current_data, previous_data)
     IN  /\ result' = [kind |-> "list", rows |-> r.rows]
         /\ written' = r.file
         /\ files' = IF r.file = << >> THEN files
                      ELSE WriteFile(files, data_path, "deactivations", today, r.rows)
  /\ op' = "detect_deactivations"
  /\ UNCHANGED <<current_data, previous_data, highlight_threshold, merged>>
  /\ UNCHANGED <<schedVars, storeOthers, trendVars, formatVars, dbVars, queryVars>>

InitDeact ==
  /\ current_data \in SnapshotsOf({10}, Statuses)
  /\ previous_data \in SnapshotsOf({10}, Statuses)
  /\ highlight_threshold = 10
  /\ op = "none"
  /\ merged = << >>
  /\ result = NoResult
  /\ written = << >>
  /\ IdleScheduler /\ IdleStore /\ IdleTrend
  /\ IdleFormat /\ IdleDatabase /\ IdleQuery

NextDeact == DetectDeactivationsReport \/ DetectDeactivations

SpecDeact == InitDeact /\ [][NextDeact]_vars

\* A deactivation detector has run and answered a list of rows.
DeactRan ==
  \/ op = "_detect_deactivations" /\ result.kind = "ok"
  \/ op = "detect_deactivations"

\* The pairs (i, j) of a current row and a previous row of one article.
JoinPairs ==
  {p \in (1..Len(current_data)) \X (1..Len(previous_data)) :
     current_data[p[1]].artikel_id = previous_data[p[2]].artikel_id}

\* The row the join makes of the pair p.
PairRow(p) ==
  [artikel_id |-> current_data[p[1]].artikel_id,
   artikelnummer |-> ArtikelNummer(current_data[p[1]].artikel_id),
   status_current |-> current_data[p[1]].status,
   status_previous |-> previous_data[p[2]].status]

\* How often the row r occurs in the list rows.
Occurrences(rows, r) == Cardinality({k \in 1..Len(rows) : rows[k] = r})

\* C11: the detector outputs exactly the inner-join pairs on artikel_id with
\* previous status aktiv and current status inaktiv, each pair once; a
\* reactivation or an unchanged status is never in the output.
C11_DeactivatedPairsExactly ==
  DeactRan =>
    /\ Len(result.rows) =
         Cardinality({p \in JoinPairs :
                        /\ previous_data[p[2]].status = "aktiv"
                        /\ current_data[p[1]].status = "inaktiv"})
    /\ \A k \in 1..Len(result.rows) :
         /\ result.rows[k].status_previous = "aktiv"
         /\ result.rows[k].status_current = "inaktiv"
         /\ \E p \in JoinPairs : PairRow(p) = result.rows[k]
    /\ \A p \in JoinPairs :
         (previous_data[p[2]].status = "aktiv" /\ current_data[p[1]].status = "inaktiv")
           => Occurrences(result.rows, PairRow(p))
                = Cardinality({q \in JoinPairs : PairRow(q) = PairRow(p)})

C11_Witness ==
  /\ DeactRan
  /\ Len(result.rows) = 1
  /\ \E p \in JoinPairs :
       previous_data[p[2]].status = "inaktiv" /\ current_data[p[1]].status = "aktiv"

\* The rows of the list s that belong to the article a and have the status st.
RowsOf(s, a, st) == {i \in 1..Len(s) : s[i].artikel_id = a /\ s[i].status = st}

\* C12: the join is on artikel_id alone and nothing is deduplicated: an
\* article with m inaktiv current rows and n aktiv previous rows has m * n
\* rows in the output; two current rows against one previous row give two.
C12_JoinNotDeduplicated ==
  DeactRan =>
    \A a \in Items :
      Cardinality({k \in 1..Len(result.rows) : result.rows[k].artikel_id = a})
        = Cardinality(RowsOf(current_data, a, "inaktiv"))
            * Cardinality(RowsOf(previous_data, a, "aktiv"))

C12_Witness ==
  /\ DeactRan
  /\ \E a \in Items :
       /\ Cardinality(RowsOf(current_data, a, "inaktiv")) = 2
       /\ Cardinality(RowsOf(previous_data, a, "aktiv")) = 1
       /\ Len(result.rows) = 2
       /\ result.rows[1] = result.rows[2]
       /\ result.rows[1].artikel_id = a

\* The articles of a list of records.
ArticlesOf(s) == {s[i].artikel_id : i \in 1..Len(s)}

\* C13: an article missing from either snapshot is never reported: every
\* output row is of an article of both lists, and an article aktiv in
\* previous that does not occur in current is not in the output.
C13_AbsentNeverReported ==
  DeactRan =>
    /\ \A k \in 1..Len(result.rows) :
         result.rows[k].artikel_id \in ArticlesOf(current_data) \cap ArticlesOf(previous_data)
    /\ \A j \in 1..Len(previous_data) :
         (previous_data[j].status = "aktiv"
            /\ previous_data[j].artikel_id \notin ArticlesOf(current_data))
           => \A k \in 1..Len(result.rows) :
                result.rows[k].artikel_id # previous_data[j].artikel_id

C13_Witness ==
  /\ DeactRan
  /\ \E j \in 1..Len(previous_data) :
       /\ previous_data[j].status = "aktiv"
       /\ previous_data[j].artikel_id \notin ArticlesOf(current_data)
  /\ \E i \in 1..Len(current_data) :
       /\ current_data[i].status = "inaktiv"
       /\ current_data[i].artikel_id \notin ArticlesOf(previous_data)
  /\ result.rows = << >>

\* The lists that hold the records of s in some order.
Reorderings(s) ==
  {[i \in 1..Len(s) |-> s[t[i]]] :
     t \in {u \in [1..Len(s) -> 1..Len(s)] :
              \A i, j \in 1..Len(s) : u[i] = u[j] => i = j}}

\* The rows of a list with the number of times each occurs.
RowBag(rows) ==
  [r \in {rows[k] : k \in 1..Len(rows)} |-> Occurrences(rows, r)]

\* C14: the detector is deterministic and independent of the order of the
\* records: on every permutation of current and of previous, and on the same
\* lists again, it answers the same rows as a multiset.
C14_OrderIndependent ==
  /\ (op = "_detect_deactivations" /\ result.kind = "ok") =>
       \A c \in Reorderings(current_data), p \in Reorderings(previous_data) :
         /\ detect_deactivations_report(c, p).kind = "ok"
         /\ RowBag(detect_deactivations_report(c, p).rows) = RowBag(result.rows)
  /\ op = "detect_deactivations" =>
       \A c \in Reorderings(current_data), p \in Reorderings(previous_data) :
         RowBag(detect_deactivations(c, p).rows) = RowBag(result.rows)

C14_Witness ==
  /\ op = "_detect_deactivations"
  /\ result.kind = "ok"
  /\ Len(result.rows) = 2
  /\ result.rows[1] # result.rows[2]
  /\ Cardinality(Reorderings(current_data)) = 2
  /\ Cardinality(Reorderings(previous_data)) = 2

(***************************************************************************)
(* The daily report and the daily run on the snapshot directory.           *)
(***************************************************************************)

\* The snapshots found in the directory: stock lines of warehouse 1.
DailySnapshots ==
  {s \in SnapshotsOf({0, 10}, Statuses) : \A i \in 1..Len(s) : s[i].lager_id = 1} \ {<< >>}

\* ReportGenerator.generate_daily_report(report_date), with its two reads of
\* the snapshot directory.
GenerateDailyReportFor ==
  /\ op = "none"
  /\ \E report_date \in {today - 1, today} :
       LET current  == retrieve_historical_data(files, report_date).ret
           previous == retrieve_historical_data(files, report_date - 1).ret
       IN  /\ current_data' = current
           /\ previous_data' = previous
           /\ IF current = << >>
              THEN /\ result' = [kind |-> "None", date |-> report_date]
                   /\ written' = << >>
                   /\ files' = files
              ELSE /\ result' = [date |-> report_date]
                                  @@ daily_report(current, previous, highlight_threshold)
                   /\ written' = <<"daily_report">>
                   /\ files' = WriteFile(files, export_path, "daily_report",
                                         report_date, current)
  /\ op' = "generate_daily_report"
  /\ UNCHANGED <<highlight_threshold, merged>>
  /\ UNCHANGED <<schedVars, storeOthers, trendVars, formatVars, dbVars, queryVars>>

\* The directory as earlier runs left it; one more run is looked at.
InitDaily ==
  /\ today = FirstDay
  /\ stamp = MaxStores - 1
  /\ files \in [Days -> {AbsentFile} \cup {Document(0, s) : s \in DailySnapshots}]
  /\ \A d \in Days : d \notin {FirstDay - 1, FirstDay} => ~files[d].exists
  /\ first_stored = files
  /\ writer = [pc |-> "idle", day |-> 0]
  /\ observed = [kind |-> "none", day |-> 0, saw |-> AbsentFile, ret |-> << >>]
  /\ track_return = "none"
  /\ IdleCompute /\ IdleScheduler /\ IdleTrend
  /\ IdleFormat /\ IdleDatabase /\ IdleQuery

NextDaily == GenerateDailyReportFor \/ TrackDailyInventory \/ StoreFlush \/ StoreFinish

SpecDaily == InitDaily /\ [][NextDaily]_vars

\* The snapshot file of the date d in the directory fs, if any.
FileOf(fs, d) == IF d \in DOMAIN fs THEN fs[d] ELSE AbsentFile

\* C15: without a snapshot for the previous date the change computation and
\* the deactivation detector are not invoked, the zero-stock detection still
\* runs on the current snapshot, and the daily report has neither 'changes'
\* nor 'deactivations'; with a previous snapshot it has both, and the daily
\* run writes both reports.
C15_PreviousAbsentSkipsComparison ==
  [][/\ (op = "none" /\ op' = "generate_daily_report" /\ result'.kind = "report")
        => /\ ~FileOf(files, result'.date - 1).exists
              => /\ "changes" \notin DOMAIN result'
                 /\ "deactivations" \notin DOMAIN result'
                 /\ result'.zero_inventory = report_zero_inventory(FileOf(files, result'.date).data)
           /\ (FileOf(files, result'.date - 1).exists /\ FileOf(files, result'.date - 1).closed)
              => /\ "changes" \in DOMAIN result'
                 /\ "deactivations" \in DOMAIN result'
     /\ (writer.pc = "idle" /\ writer'.pc = "writing")
        => /\ ~FileOf(files, today - 1).exists => written' = <<"zero_inventory">>
           /\ (FileOf(files, today - 1).exists /\ FileOf(files, today - 1).closed)
              => written' = <<"inventory_changes", "deactivations", "zero_inventory">>
    ]_vars

\* A report without the comparisons but with zero stock found, made while
\* the previous date has no snapshot.
C15_Witness ==
  /\ op = "generate_daily_report"
  /\ result.kind = "report"
  /\ "changes" \notin DOMAIN result
  /\ result.zero_inventory # << >>
  /\ ~FileOf(files, result.date - 1).exists

(***************************************************************************)
(* The trend report on snapshots of many articles, for the label at the    *)
(* five per cent marks.                                                    *)
(***************************************************************************)

\* A snapshot of active aktiv and inactive inaktiv articles, one stock line
\* each.
CountedSnapshot(active, inactive) ==
  [i \in 1..(active + inactive) |->
     [artikel_id |-> i, lager_id |-> 1, bestand |-> 10,
      status |-> IF i <= active THEN "aktiv" ELSE "inaktiv"]]

\* The numbers of aktiv and inaktiv articles of the snapshots looked at.
TrendCounts ==
  {<<0, 1>>, <<94, 0>>, <<95, 0>>, <<100, 0>>, <<100, 1>>, <<105, 0>>, <<106, 0>>}

InitTrendCounts ==
  /\ today = TrendDays
  /\ stamp = 0
  /\ files \in [1..TrendDays ->
                  {AbsentFile} \cup {Document(0, CountedSnapshot(c[1], c[2])) : c \in TrendCounts}]
  /\ first_stored = files
  /\ writer = [pc |-> "idle", day |-> 0]
  /\ observed = [kind |-> "none", day |-> 0, saw |-> AbsentFile, ret |-> << >>]
  /\ track_return = "none"
  /\ IdleTrend
  /\ IdleFormat /\ IdleDatabase /\ IdleQuery
  /\ IdleCompute /\ IdleScheduler

SpecTrendCounts == InitTrendCounts /\ [][NextTrend]_vars

\* The number of aktiv records of the snapshot stored for the date d.
ActiveCount(d) ==
  Cardinality({i \in 1..Len(files[d].data) : files[d].data[i].status = "aktiv"})

\* C16: with two included dates or more the trend label is decided by the
\* active counts of the first and the last included date alone: increasing
\* iff last > first * 1.05, decreasing iff last < first * 0.95, else stable;
\* 100 -> 105 and 100 -> 95 are stable, 100 -> 106 increasing, 100 -> 94
\* decreasing.
C16_TrendLabel ==
  (trend_report.kind = "report" /\ Len(trend_report.summary.dates) >= 2)
    => LET dates == trend_report.summary.dates
           first == ActiveCount(dates[1])
           last  == ActiveCount(dates[Len(dates)])
       IN  /\ trend_report.summary.trend = "increasing" <=> last * 100 > first * 105
           /\ trend_report.summary.trend = "decreasing" <=> last * 100 < first * 95
           /\ trend_report.summary.trend \in {"increasing", "decreasing", "stable"}
           /\ (first = 100 /\ last = 105) => trend_report.summary.trend = "stable"
           /\ (first = 100 /\ last = 95)  => trend_report.summary.trend = "stable"
           /\ (first = 100 /\ last = 106) => trend_report.summary.trend = "increasing"
           /\ (first = 100 /\ last = 94)  => trend_report.summary.trend = "decreasing"

\* 100 -> 105 is stable, whatever lies between.
C16_Witness ==
  /\ trend_report.kind = "report"
  /\ trend_report.summary.dates = <<1, 2, 3>>
  /\ ActiveCount(1) = 100
  /\ ActiveCount(2) = 0
  /\ ActiveCount(3) = 105
  /\ trend_report.summary.trend = "stable"

\* generate_trend_report has run.
TrendRan == trend_report.kind # "none"

\* The dates of the requested range that have a snapshot.
IncludedDates ==
  {d \in trend_args.start_date..trend_args.end_date : FileOf(files, d).exists}

\* C17: the trend over a range with no or one included date is a summary
\* with the label 'stable', and with the average 0 when no date is included.
C17_FewDatesStable ==
  (TrendRan /\ Cardinality(IncludedDates) <= 1)
    => /\ trend_report.kind = "report"
       /\ trend_report.summary.trend = "stable"
       /\ IncludedDates = {} => trend_report.summary.avg_articles_per_day = FZero

\* C18: the summary has an entry for exactly the dates of the range that
\* have a snapshot, in ascending order, nothing for the others; and without
\* a category the active count of a date is the number of its aktiv records,
\* the zero-stock count the number of its aktiv records with bestand 0.
C18_EntriesForStoredDates ==
  (TrendRan /\ trend_report.kind = "report")
    => LET s == trend_report.summary IN
       /\ {s.dates[i] : i \in 1..Len(s.dates)} = IncludedDates
       /\ \A i, j \in 1..Len(s.dates) : i < j => s.dates[i] < s.dates[j]
       /\ DOMAIN s.total_articles = IncludedDates
       /\ DOMAIN s.active_articles = IncludedDates
       /\ DOMAIN s.zero_inventory = IncludedDates
       /\ trend_args.category = NoCategory =>
            \A d \in IncludedDates :
              /\ s.active_articles[d] = ActiveCount(d)
              /\ s.zero_inventory[d] =
                   Cardinality({i \in 1..Len(files[d].data) :
                                  /\ files[d].data[i].status = "aktiv"
                                  /\ files[d].data[i].bestand = 0})

\* A range with a gap in the middle, and an inaktiv record without stock
\* that is not counted.
C18_Witness ==
  /\ TrendRan
  /\ trend_report.kind = "report"
  /\ trend_args.category = NoCategory
  /\ trend_args.start_date = 1
  /\ trend_args.end_date = 3
  /\ trend_report.summary.dates = <<1, 3>>
  /\ trend_report.summary.zero_inventory[3] = 1
  /\ \E i \in 1..Len(files[3].data) :
       files[3].data[i].status = "inaktiv" /\ files[3].data[i].bestand = 0

(***************************************************************************)
(* The change computation on records that lack a field.  Here a record     *)
(* carries its artikelnummer, and a field is missing when no record of the *)
(* list has it, so that the data frame has no such column.                 *)
(***************************************************************************)
required_columns == {"artikel_id", "artikelnummer", "bestand", "lager_id"}

\* The record as the query returns it.
FullRecord(r) ==
  [artikel_id |-> r.artikel_id, artikelnummer |-> ArtikelNummer(r.artikel_id),
   lager_id |-> r.lager_id, bestand |-> r.bestand, status |-> r.status]

\* The list with the fields of the set gone from every record.
WithoutFields(data, gone) ==
  [i \in 1..Len(data) |-> [f \in (DOMAIN FullRecord(data[i])) \ gone |-> FullRecord(data[i])[f]]]

\* pd.DataFrame(data).columns
Columns(data) == UNION {DOMAIN data[i] : i \in 1..Len(data)}

\* The records of a list that has every column, as the computations take them.
CoreRecords(data) ==
  [i \in 1..Len(data) |->
     [artikel_id |-> data[i].artikel_id, lager_id |-> data[i].lager_id,
      bestand |-> data[i].bestand, status |-> data[i].status]]

\* The columns _calculate_changes reads, in the order it reads them: the key
\* of current, the key of previous, the selection of current, the selection
\* of previous.
ColumnReads ==
  <<<<"current", "artikel_id">>, <<"current", "lager_id">>,
    <<"previous", "artikel_id">>, <<"previous", "lager_id">>,
    <<"current", "artikelnummer">>, <<"current", "bestand">>, <<"current", "status">>,
    <<"previous", "bestand">>, <<"previous", "status">>>>

\* ReportGenerator._calculate_changes on lists of records: the first read of
\* a column that is not there raises KeyError.
calculate_changes_frames(current, previous, threshold) ==
  LET cols(side) == IF side = "current" THEN Columns(current) ELSE Columns(previous)
      failing == {k \in 1..Len(ColumnReads) : ColumnReads[k][2] \notin cols(ColumnReads[k][1])}
  IN  IF failing # {}
      THEN LET k == CHOOSE x \in failing : \A y \in failing : x <= y
           IN  [kind |-> "KeyError", column |-> ColumnReads[k][2]]
      ELSE calculate_changes(CoreRecords(current), CoreRecords(previous), threshold).report

\* InventoryTracker.compare_inventory_levels on lists of records: a warning
\* and {} when a required column is not there.
compare_inventory_levels_frames(current, previous, threshold) ==
  IF ~(required_columns \subseteq Columns(current)) \/ ~(required_columns \subseteq Columns(previous))
  THEN [report |-> [kind |-> "empty"], file |-> << >>]
  ELSE LET r == compare_inventory_levels(CoreRecords(current), CoreRecords(previous), threshold)
       IN  [report |-> r.report, file |-> r.file]

CalculateChangesOnFrames ==
  /\ op = "none"
  /\ result' = calculate_changes_frames(current_data, previous_data, highlight_threshold)
  /\ op' = "_calculate_changes"
  /\ UNCHANGED <<current_data, previous_data, highlight_threshold, merged, written>>
  /\ UNCHANGED <<schedVars, storeVars, trendVars, formatVars, dbVars, queryVars>>

CompareInventoryLevelsOnFrames ==
  /\ op = "none"
  /\ LET r == compare_inventory_levels_frames(current_data, previous_data, highlight_threshold)
     IN  /\ result' = r.report
         /\ written' = r.file
  /\ op' = "compare_inventory_levels"
  /\ UNCHANGED <<current_data, previous_data, highlight_threshold, merged>>
  /\ UNCHANGED <<schedVars, storeVars, trendVars, formatVars, dbVars, queryVars>>

\* Pairs of snapshots, each whole or with one required field gone.
InitFrames ==
  /\ \E c \in SnapshotsOf({10, 11}, {"aktiv"}) \ {<< >>},
        gone \in {{}} \cup {{f} : f \in required_columns} :
       current_data = WithoutFields(c, gone)
  /\ \E p \in SnapshotsOf({10}, {"aktiv"}) \ {<< >>},
        gone \in {{}} \cup {{f} : f \in required_columns} :
       previous_data = WithoutFields(p, gone)
  /\ highlight_threshold = 10
  /\ op = "none"
  /\ merged = << >>
  /\ result = NoResult
  /\ written = << >>
  /\ IdleScheduler /\ IdleStore /\ IdleTrend
  /\ IdleFormat /\ IdleDatabase /\ IdleQuery

NextFrames == CalculateChangesOnFrames \/ CompareInventoryLevelsOnFrames

SpecFrames == InitFrames /\ [][NextFrames]_vars

\* The required fields that one of the two lists lacks.
MissingFields ==
  (required_columns \ Columns(current_data)) \cup (required_columns \ Columns(previous_data))

\* C19: when a required field is missing from the records of either list,
\* the change computation signals a MalformedSnapshotError that names a
\* missing field; it returns no report and fails in no other way.
C19_MalformedSnapshotError ==
  (op \in {"_calculate_changes", "compare_inventory_levels"} /\ MissingFields # {})
    => /\ result.kind = "MalformedSnapshotError"
       /\ result.column \in MissingFields

\* C20: no function of the computation layer raises on empty input: with an
\* empty list on either side the change computation returns a result and
\* raises nothing.
C20_EmptyInputNoRaise ==
  (op \in {"_calculate_changes", "compare_inventory_levels"}
     /\ (current_data = << >> \/ previous_data = << >>))
    => result.kind # "KeyError"

(***************************************************************************)
(* The derived reports next to the snapshot directory: the snapshots of    *)
(* the first days and of yesterday and today may be there, and any report  *)
(* is computed, the detectors on two lists handed to them.                 *)
(***************************************************************************)
ReportInputs ==
  {s \in SnapshotsOf({0, 10}, Statuses) :
     Len(s) <= 1 /\ \A i \in 1..Len(s) : s[i].artikel_id = 1 /\ s[i].lager_id = 1}

InitReports ==
  /\ current_data \in ReportInputs
  /\ previous_data \in ReportInputs
  /\ highlight_threshold = 10
  /\ op = "none"
  /\ merged = << >>
  /\ result = NoResult
  /\ written = << >>
  /\ today = FirstDay
  /\ stamp = 0
  /\ files \in [(1..TrendDays) \cup {FirstDay - 1, FirstDay} ->
                  {AbsentFile, Document(0, OldData)}]
  /\ first_stored = files
  /\ writer = [pc |-> "idle", day |-> 0]
  /\ observed = [kind |-> "none", day |-> 0, saw |-> AbsentFile, ret |-> << >>]
  /\ track_return = "none"
  /\ IdleScheduler /\ IdleTrend
  /\ IdleFormat /\ IdleDatabase /\ IdleQuery

NextReports ==
  \/ CalculateChanges
  \/ CompareInventoryLevels
  \/ DetectZeroInventory
  \/ DetectDeactivationsReport
  \/ DetectDeactivations
  \/ GenerateDailyReportFor
  \/ GenerateTrendReport

SpecReports == InitReports /\ [][NextReports]_vars

\* The operations that are handed their record lists.
ListOps ==
  {"_calculate_changes", "compare_inventory_levels", "detect_zero_inventory",
   "_detect_deactivations", "detect_deactivations"}

\* C21: computing a derived report never mutates the snapshot store: over a
\* call of the change computation, a deactivation detector, the zero-stock
\* detector, generate_daily_report or generate_trend_report every stored
\* snapshot stays as it is, none is added or deleted, and the record lists
\* handed in stay as they are.
C21_ReportsLeaveStore ==
  [][(op' # op \/ trend_report' # trend_report)
       => /\ files' = files
          /\ op' \in ListOps
               => (current_data' = current_data /\ previous_data' = previous_data)
    ]_vars

\* The change report of the tracker has been written into the directory
\* that holds the snapshot of today.
C21_Witness ==
  /\ op = "compare_inventory_levels"
  /\ written = <<"inventory_changes">>
  /\ files[today].exists
  /\ result.details # << >>

(***************************************************************************)
(* The waits of the retries.                                               *)
(***************************************************************************)

\* The retry jobs the last execution of execute_task has scheduled.
LastScheduled ==
  {j \in jobs : /\ current_task_id \in DOMAIN task_failures
                /\ j.id = <<current_task_id, task_failures[current_task_id]>>}

\* C22: within one day's run the wait before each successive retry grows:
\* the wait scheduled after the k-th failure in a row is retry_interval * k.
C22_WaitGrows ==
  (executions > 0 /\ ~last_return)
    => \A j \in LastScheduled : j.minutes = retry_interval * consecutive_failures

(***************************************************************************)
(* The retention of snapshots.                                             *)
(***************************************************************************)

\* The reports InventoryTracker writes into data_path.
ReportStems == {"inventory_changes", "zero_inventory", "deactivations"}

\* store_daily_data returns True.
StoreCompletes == writer.pc = "writing" /\ writer'.pc = "idle"

\* C23: after store_daily_data completes, every stored snapshot whose date
\* is more than max_data_age days old has been deleted, no snapshot whose
\* date is at most max_data_age days old has been deleted, and the files of
\* the directory that are no daily snapshots are not touched.
C23_RetentionAge ==
  [][StoreCompletes
       => /\ \A d \in DOMAIN files :
               /\ today - d > max_data_age => ~files'[d].exists
               /\ (today - d <= max_data_age /\ files[d].exists) => files'[d].exists
          /\ \A stem \in ReportStems, d \in DOMAIN files :
               ~Expired(FileName(stem, d), today)
    ]_vars

(***************************************************************************)
(* The report formatter.  A report is a mapping from the names of its      *)
(* sections to their values; a daily report may lack any of its sections.  *)
(***************************************************************************)

\* dict.get(key, default)
Get(mapping, key, default) == IF key \in DOMAIN mapping THEN mapping[key] ELSE default

\* The mapping without the keys of gone.
Without(mapping, gone) == [k \in (DOMAIN mapping) \ gone |-> mapping[k]]

\* f"{x:.2f}%": the text of a double with two decimals and a per cent sign.
Format2f(x) == [text |-> "%.2f%%", of |-> x]

ZeroInventoryTable(items) ==
  [title |-> "Artikel mit Nullbestand",
   data  |-> [i \in 1..Len(items) |->
                <<Get(items[i], "artikel_id", ""), Get(items[i], "artikelnummer", ""),
                  Get(items[i], "lager_id", "")>>]]

ChangesTable(items) ==
  [title |-> "Signifikante Bestandsänderungen",
   data  |-> [i \in 1..Len(items) |->
                <<Get(items[i], "artikelnummer", ""), Get(items[i], "bestand_previous", 0),
                  Get(items[i], "bestand_current", 0), Get(items[i], "change", 0),
                  Format2f(Get(items[i], "change_percent", FZero))>>]]

DeactivationsTable(items) ==
  [title |-> "Deaktivierte Artikel",
   data  |-> [i \in 1..Len(items) |->
                <<Get(items[i], "artikel_id", ""), Get(items[i], "artikelnummer", "")>>]]

\* The sections _format_as_table makes a table of.
TableSections(report_mapping) ==
  {s \in {"zero_inventory", "deactivations"} : s \in DOMAIN report_mapping}
    \cup (IF "changes" \in DOMAIN report_mapping
             /\ "significant_changes" \in DOMAIN report_mapping.changes
          THEN {"changes"} ELSE {})

\* Mutant of format_as_table: the deactivations are read with a default.
format_as_table_DefaultDeactivations(report_mapping) ==
  [kind     |-> "table",
   metadata |-> [date |-> Get(report_mapping, "date", "")],
   tables   |-> [s \in TableSections(report_mapping) \cup {"deactivations"} |->
                   IF s = "zero_inventory"
                   THEN ZeroInventoryTable(report_mapping.zero_inventory)
                   ELSE IF s = "changes"
                   THEN ChangesTable(report_mapping.changes.significant_changes)
                   ELSE DeactivationsTable(Get(report_mapping, "deactivations", << >>))]]

\* ReportGenerator._format_as_table(report_data)
format_as_table(report_mapping) ==
  [kind     |-> "table",
   metadata |-> [date |-> Get(report_mapping, "date", "")],
   tables   |-> [s \in TableSections(report_mapping) |->
                   IF s = "zero_inventory"
                   THEN ZeroInventoryTable(report_mapping.zero_inventory)
                   ELSE IF s = "changes"
                   THEN ChangesTable(report_mapping.changes.significant_changes)
                   ELSE DeactivationsTable(report_mapping.deactivations)]]

\* Mutant of format_as_summary: the count of the significant changes is taken
\* from total_items.
format_as_summary_CountsTotal(report_mapping) ==
  [kind |-> "summary",
   date |-> Get(report_mapping, "date", ""),
   summary |->
     [total_articles |-> Get(report_mapping, "total_articles", 0),
      active_articles |-> Get(report_mapping, "active_articles", 0),
      zero_inventory_count |-> Len(Get(report_mapping, "zero_inventory", << >>))]
     @@ (IF "changes" \in DOMAIN report_mapping
         THEN [increased_inventory |-> Get(report_mapping.changes, "increased", 0),
               decreased_inventory |-> Get(report_mapping.changes, "decreased", 0),
               unchanged_inventory |-> Get(report_mapping.changes, "unchanged", 0),
               significant_changes_count |-> Get(report_mapping.changes, "total_items", 0)]
         ELSE << >>)
     @@ (IF "deactivations" \in DOMAIN report_mapping
         THEN [deactivated_articles |-> Len(report_mapping.deactivations)]
         ELSE << >>)]

\* ReportGenerator._format_as_summary(report_data)
format_as_summary(report_mapping) ==
  [kind |-> "summary",
   date |-> Get(report_mapping, "date", ""),
   summary |->
     [total_articles |-> Get(report_mapping, "total_articles", 0),
      active_articles |-> Get(report_mapping, "active_articles", 0),
      zero_inventory_count |-> Len(Get(report_mapping, "zero_inventory", << >>))]
     @@ (IF "changes" \in DOMAIN report_mapping
         THEN [increased_inventory |-> Get(report_mapping.changes, "increased", 0),
               decreased_inventory |-> Get(report_mapping.changes, "decreased", 0),
               unchanged_inventory |-> Get(report_mapping.changes, "unchanged", 0),
               significant_changes_count |->
                 Len(Get(report_mapping.changes, "significant_changes", << >>))]
         ELSE << >>)
     @@ (IF "deactivations" \in DOMAIN report_mapping
         THEN [deactivated_articles |-> Len(report_mapping.deactivations)]
         ELSE << >>)]

\* ReportGenerator.format_report_data(report_data, format_type): None for a
\* mapping without entries, the report itself for 'detailed' and for an
\* unknown type.
format_report_data(report_mapping, type) ==
  IF DOMAIN report_mapping = {} THEN [kind |-> "None"]
  ELSE IF type = "table" THEN format_as_table(report_mapping)
  ELSE IF type = "summary" THEN format_as_summary(report_mapping)
  ELSE report_mapping

FormatReportData ==
  /\ formatted = NoResult
  /\ formatted' = format_report_data(report_data, format_type)
  /\ UNCHANGED <<report_data, format_type>>
  /\ UNCHANGED <<computeVars, schedVars, storeVars, trendVars, dbVars, queryVars>>

\* The daily reports of pairs of snapshots of warehouse 1.
DailyReports ==
  {[date |-> FirstDay] @@ daily_report(c, p, 10) :
     c \in DailySnapshots, p \in DailySnapshots \cup {<< >>}}

\* A daily report that lacks some of its sections, or whose changes lack the
\* list of the significant ones; the mapping without entries.
ReportMappings ==
  {Without(r, gone) :
     r \in DailyReports,
     gone \in SUBSET {"date", "zero_inventory", "changes", "deactivations"}}
  \cup {[Without(r, gone) EXCEPT !.changes = Without(@, {"significant_changes"})] :
          r \in {x \in DailyReports : "changes" \in DOMAIN x},
          gone \in SUBSET {"date", "zero_inventory", "deactivations"}}
  \cup {<< >>}

InitFormat ==
  /\ report_data \in ReportMappings
  /\ format_type \in {"table", "summary", "detailed"}
  /\ formatted = NoResult
  /\ IdleCompute /\ IdleScheduler /\ IdleStore /\ IdleTrend
  /\ IdleDatabase /\ IdleQuery

NextFormat == FormatReportData

SpecFormat == InitFormat /\ [][NextFormat]_vars

\* The sections of the report that hold a list to show.
PresentSections ==
  {s \in {"zero_inventory", "deactivations"} : s \in DOMAIN report_data}
    \cup (IF "changes" \in DOMAIN report_data
             /\ "significant_changes" \in DOMAIN report_data.changes
          THEN {"changes"} ELSE {})

\* The list of a section of the report.
SectionList(s) ==
  IF s = "changes" THEN report_data.changes.significant_changes ELSE report_data[s]

\* The tables of the formatted output; the answer None has none.
TablesOf(out) == IF "tables" \in DOMAIN out THEN out.tables ELSE << >>

\* C24: in table mode the formatter does not fail on a report with missing
\* sections: the output has a table for zero_inventory, changes or
\* deactivations exactly when the report has that section (changes: when it
\* has the list significant_changes), each table has one row per entry of
\* the list, and an absent section has no table.
C24_TablesOfPresentSections ==
  (formatted # NoResult /\ format_type = "table")
    => /\ formatted.kind \in {"table", "None"}
       /\ formatted.kind = "None" => DOMAIN report_data = {}
       /\ DOMAIN TablesOf(formatted) = PresentSections
       /\ \A s \in PresentSections :
            Len(TablesOf(formatted)[s].data) = Len(SectionList(s))

\* A report with zero stock found and no comparison has been formatted.
C24_Witness ==
  /\ formatted # NoResult
  /\ format_type = "table"
  /\ formatted.kind = "table"
  /\ DOMAIN formatted.tables = {"zero_inventory"}
  /\ Len(formatted.tables.zero_inventory.data) = 1
  /\ "total_articles" \in DOMAIN report_data

\* C25: in summary mode every present section is reduced to a count:
\* zero_inventory_count is the length of the zero-stock list,
\* significant_changes_count that of the list of significant changes and
\* deactivated_articles that of the deactivations, and the counts of the
\* changes and of the deactivations are there only when the report has the
\* section.
C25_SummaryCounts ==
  (formatted # NoResult /\ format_type = "summary" /\ DOMAIN report_data # {})
    => /\ formatted.kind = "summary"
       /\ formatted.summary.zero_inventory_count
            = Len(Get(report_data, "zero_inventory", << >>))
       /\ "significant_changes_count" \in DOMAIN formatted.summary
            <=> "changes" \in DOMAIN report_data
       /\ "changes" \in DOMAIN report_data
            => formatted.summary.significant_changes_count
                 = Len(Get(report_data.changes, "significant_changes", << >>))
       /\ "deactivated_articles" \in DOMAIN formatted.summary
            <=> "deactivations" \in DOMAIN report_data
       /\ "deactivations" \in DOMAIN report_data
            => formatted.summary.deactivated_articles = Len(report_data.deactivations)

\* The summary of a report with one significant change among two rows and
\* one deactivation.
C25_Witness ==
  /\ formatted # NoResult
  /\ format_type = "summary"
  /\ formatted.kind = "summary"
  /\ "changes" \in DOMAIN report_data
  /\ "deactivations" \in DOMAIN report_data
  /\ formatted.summary.significant_changes_count = 1
  /\ report_data.changes.total_items = 2
  /\ formatted.summary.deactivated_articles = 1
  /\ "zero_inventory" \notin DOMAIN report_data

\* A retry job fires in this step.
RetryFired == \E j \in jobs : j.since < now /\ [j EXCEPT !.since = now] \in jobs'

\* C26: a retry scheduled by retry_failed_task runs the task once: when an
\* execution of execute_task has succeeded no retry job is left scheduled,
\* and no retry job runs the task again after a success.
C26_RetryRunsOnce ==
  [][/\ (executions' # executions /\ last_return') => jobs' = {}
     /\ (executions > 0 /\ last_return) => ~RetryFired
    ]_vars

(***************************************************************************)
(* DatabaseManager.handle_connection_error.  Its loop tests the new engine *)
(* with test_connection, which asks get_connection for a connection; when *)
(* engine.connect() raises a DBAPIError there, get_connection itself calls *)
(* handle_connection_error and then connects once more.  db_stack holds    *)
(* the calls of handle_connection_error that have not returned: the        *)
(* retry_count of each and where it stands ("loop": at the head of its     *)
(* loop; "nested": in get_connection, waiting for the call above it;       *)
(* "again": in get_connection, about to connect once more).  MaxDepth is   *)
(* the depth at which the interpreter refuses a further call (a            *)
(* RecursionError, which test_connection catches like any exception).      *)
(***************************************************************************)
max_retries == 3

\* What engine.connect() followed by execute("SELECT 1") can do.
ConnectResults == {"ok", "DBAPIError", "error"}

\* The stack after its innermost call has returned: the caller, if any,
\* goes on in get_connection with 'return self.engine.connect()'.
AfterReturn(stack) ==
  IF Len(stack) = 1 THEN << >>
  ELSE [SubSeq(stack, 1, Len(stack) - 1) EXCEPT ![Len(stack) - 1].pc = "again"]

\* The stack after its innermost call has raised: the exception leaves the
\* caller's get_connection, test_connection answers False and the caller's
\* loop goes on.
AfterRaise(stack) ==
  IF Len(stack) = 1 THEN << >>
  ELSE [SubSeq(stack, 1, Len(stack) - 1) EXCEPT ![Len(stack) - 1].pc = "loop"]

\* connect() or get_connection() has caught an error and calls
\* handle_connection_error(error).
HandleConnectionError ==
  /\ db_outcome = "idle"
  /\ db_stack' = <<[retry_count |-> 0, pc |-> "loop"]>>
  /\ db_attempts' = 0
  /\ db_tested' = FALSE
  /\ db_outcome' = "running"
  /\ UNCHANGED <<computeVars, schedVars, storeVars, trendVars, formatVars, queryVars>>

\* One turn of the loop: retry_count += 1, the sleep, a new engine, and
\* test_connection on it.
Reconnect ==
  /\ db_outcome = "running"
  /\ LET n   == Len(db_stack)
         top == db_stack[n]
     IN  /\ top.pc = "loop"
         /\ top.retry_count < max_retries
         /\ db_attempts' = db_attempts + 1
         /\ \E res \in ConnectResults :
              IF res = "ok"
              THEN /\ db_stack' = AfterReturn(db_stack)
                   /\ db_tested' = TRUE
                   /\ db_outcome' = IF n = 1 THEN "returned" ELSE "running"
              ELSE IF res = "DBAPIError" /\ n < MaxDepth
              THEN /\ db_stack' = Append([db_stack EXCEPT ![n] =
                                            [retry_count |-> top.retry_count + 1,
                                             pc |-> "nested"]],
                                         [retry_count |-> 0, pc |-> "loop"])
                   /\ UNCHANGED <<db_tested, db_outcome>>
              ELSE /\ db_stack' = [db_stack EXCEPT ![n].retry_count = @ + 1]
                   /\ UNCHANGED <<db_tested, db_outcome>>
  /\ UNCHANGED <<computeVars, schedVars, storeVars, trendVars, formatVars, queryVars>>

\* get_connection after the call it made has returned:
\* 'return self.engine.connect()', inside the caller's test_connection.
ConnectAgain ==
  /\ db_outcome = "running"
  /\ LET n == Len(db_stack)
     IN  /\ db_stack[n].pc = "again"
         /\ db_attempts' = db_attempts + 1
         /\ \E res \in ConnectResults :
              IF res = "ok"
              THEN /\ db_stack' = AfterReturn(db_stack)
                   /\ db_tested' = TRUE
                   /\ db_outcome' = IF n = 1 THEN "returned" ELSE "running"
              ELSE /\ db_stack' = [db_stack EXCEPT ![n].pc = "loop"]
                   /\ UNCHANGED <<db_tested, db_outcome>>
  /\ UNCHANGED <<computeVars, schedVars, storeVars, trendVars, formatVars, queryVars>>

\* The loop has ended without a working connection: 'raise error'.
RaiseError ==
  /\ db_outcome = "running"
  /\ LET n == Len(db_stack)
     IN  /\ db_stack[n].pc = "loop"
         /\ db_stack[n].retry_count = max_retries
         /\ db_stack' = AfterRaise(db_stack)
         /\ db_outcome' = IF n = 1 THEN "raised" ELSE "running"
  /\ UNCHANGED <<db_attempts, db_tested>>
  /\ UNCHANGED <<computeVars, schedVars, storeVars, trendVars, formatVars, queryVars>>

InitDatabase ==
  /\ IdleDatabase
  /\ IdleCompute /\ IdleScheduler /\ IdleStore /\ IdleTrend
  /\ IdleFormat /\ IdleQuery

NextDatabase == HandleConnectionError \/ Reconnect \/ ConnectAgain \/ RaiseError

SpecDatabase == InitDatabase /\ [][NextDatabase]_vars

\* C27: handle_connection_error makes at most max_retries attempts to
\* connect in all, those made through test_connection and get_connection
\* counted; it returns as soon as a test of the connection succeeds, making
\* no further attempt; and it raises the error only after the
\* max_retries-th failed attempt.
C27_BoundedReconnects ==
  [][/\ db_attempts' <= max_retries
     /\ db_outcome' = "raised" => db_attempts' = max_retries
     /\ db_tested => db_attempts' = db_attempts
    ]_vars

(***************************************************************************)
(* The daily run with its failures: a step that raises, and a store that   *)
(* fails.                                                                  *)
(***************************************************************************)

\* InventoryTracker.track_daily_inventory when compare_inventory_levels,
\* detect_deactivations or detect_zero_inventory raises (writing its report
\* file, for instance): the reports before it are written, the exception is
\* caught, the snapshot is not stored and the answer is False.
TrackStepRaises ==
  /\ writer.pc = "idle"
  /\ stamp < MaxStores
  /\ \E inventory_data \in QueryResults \ {<< >>} :
       LET reports == track_reports(inventory_data,
                                    retrieve_historical_data(files, today - 1).ret,
                                    highlight_threshold)
       IN  \E k \in 0..(Len(reports) - 1) : written' = SubSeq(reports, 1, k)
  /\ stamp' = stamp + 1
  /\ track_return' = "False"
  /\ UNCHANGED <<today, files, writer, observed, first_stored>>
  /\ UNCHANGED <<current_data, previous_data, highlight_threshold, op, merged, result>>
  /\ UNCHANGED <<schedVars, trendVars, formatVars, dbVars, queryVars>>

\* store_daily_data when json.dump raises (a value that json cannot write, a
\* full disk): the file keeps what was written of the document and is not
\* completed, _clean_old_data is not reached, the exception is caught and
\* store_daily_data answers False; track_daily_inventory does not look at
\* the answer, logs the run as completed and returns True.
StoreFails ==
  /\ writer.pc = "writing"
  /\ writer' = [pc |-> "idle", day |-> 0]
  /\ track_return' = "True"
  /\ UNCHANGED <<today, stamp, files, observed, first_stored>>
  /\ UNCHANGED <<computeVars, schedVars, trendVars, formatVars, dbVars, queryVars>>

NextTrack ==
  TrackDailyInventory \/ TrackStepRaises \/ StoreFlush \/ StoreFinish \/ StoreFails

SpecTrack == InitStore /\ [][NextTrack]_vars

\* C28: track_daily_inventory returns True only when the snapshot of today
\* has been persisted; a run in which a comparison or detection step or
\* store_daily_data fails returns False; and a run that returns False for
\* want of inventory data leaves the store as it was.
C28_TrueOnlyIfPersisted ==
  [][/\ track_return' = "True"
          => /\ files'[today].exists
             /\ files'[today].closed
             /\ files'[today].flushed = Len(files'[today].data)
     /\ (writer.pc = "idle" /\ track_return' = "False") => files' = files
    ]_vars

(***************************************************************************)
(* The QueryExecutor and its cache directory.  Names are strings, kept as  *)
(* sequences of character codes; params is the sorted list of the items    *)
(* of the params dict (empty for None).  cache maps the name of a cache    *)
(* file to what it holds.                                                  *)
(***************************************************************************)

\* The query names used: 'q' and 'q.k_1'.
QueryNames == {<<113>>, <<113, 46, 107, 95, 49>>}

\* The params used: None and {'k': 1}.
ParamSets == {<< >>, <<[k |-> <<107>>, v |-> 1]>>}

CacheTtls == {0, 1}

\* What the database answers to the query: an exception, no rows, rows.
DbAnswers == {[kind |-> "raise"], [kind |-> "rows", rows |-> << >>],
              [kind |-> "rows", rows |-> <<[value |-> 1]>>]}

\* c.isalnum() or c in "_-", for ASCII.
KeepsChar(c) ==
  c \in (48..57) \cup (65..90) \cup (97..122) \cup {95, 45}

\* "_".join(f"{k}_{v}" for k, v in sorted(params.items()))
RECURSIVE ParamStr(_)
ParamStr(params) ==
  IF params = << >> THEN << >>
  ELSE Head(params).k \o <<95>> \o Str(Head(params).v)
       \o (IF Tail(params) = << >> THEN << >> ELSE <<95>> \o ParamStr(Tail(params)))

\* QueryExecutor._generate_cache_key(query_name, params)
generate_cache_key(query_name, params) ==
  LET cache_key == IF params # << >> THEN query_name \o <<95>> \o ParamStr(params)
                   ELSE query_name
  IN  [i \in 1..Len(cache_key) |-> IF KeepsChar(cache_key[i]) THEN cache_key[i] ELSE 95]

CacheKeys == {generate_cache_key(n, p) : n \in QueryNames, p \in ParamSets}

NoCacheFile ==
  [exists |-> FALSE, timestamp |-> 0, query_name |-> << >>, params |-> << >>,
   results |-> << >>]

\* item['_is_fallback'] = True
MarkFallback(item) == ("_is_fallback" :> TRUE) @@ item

\* QueryExecutor.get_cached_results(query_name, params, ttl) at the time t:
\* the results of the cache file of the key unless it is older than ttl.
get_cached_results(files_of_cache, query_name, params, ttl, t) ==
  LET cache_file == files_of_cache[generate_cache_key(query_name, params)]
  IN  IF ~cache_file.exists THEN [kind |-> "None"]
      ELSE IF t - cache_file.timestamp > ttl THEN [kind |-> "None"]
      ELSE [kind |-> "rows", rows |-> cache_file.results, source |-> "cache",
            age |-> t - cache_file.timestamp]

\* QueryExecutor.handle_query_error(query_name, params, error): the results
\* of the cache file of the key, of any age, every item marked.
handle_query_error(files_of_cache, query_name, params, t) ==
  LET cache_file == files_of_cache[generate_cache_key(query_name, params)]
  IN  IF cache_file.exists
      THEN [kind |-> "rows",
            rows |-> [i \in 1..Len(cache_file.results) |->
                        MarkFallback(cache_file.results[i])],
            source |-> "fallback", age |-> t - cache_file.timestamp]
      ELSE [kind |-> "None"]

\* Some cache file holds the results stored for this query name and params.
HasEntry(files_of_cache, query_name, params) ==
  \E key \in DOMAIN files_of_cache :
    /\ files_of_cache[key].exists
    /\ files_of_cache[key].query_name = query_name
    /\ files_of_cache[key].params = params

\* QueryExecutor.execute_query(query, params, query_name, use_cache,
\* cache_ttl) with a query text and a query name given.
ExecuteQuery ==
  /\ \E query_name \in QueryNames, params \in ParamSets, use_cache \in BOOLEAN,
        cache_ttl \in CacheTtls, answer \in DbAnswers :
       LET cached_results ==
             IF use_cache
             THEN get_cached_results(cache, query_name, params, cache_ttl, cache_now)
             ELSE [kind |-> "None"]
           call == [kind |-> "call", query_name |-> query_name, params |-> params,
                    use_cache |-> use_cache, cache_ttl |-> cache_ttl,
                    had_entry |-> HasEntry(cache, query_name, params)]
       IN  IF cached_results.kind # "None"
           THEN /\ query_call' = call @@ [db |-> "not_run", ret |-> cached_results]
                /\ UNCHANGED cache
           ELSE IF answer.kind = "raise"
           THEN /\ query_call' =
                     call @@ [db |-> "failed",
                              ret |-> handle_query_error(cache, query_name, params,
                                                         cache_now)]
                /\ UNCHANGED cache
           ELSE /\ query_call' =
                     call @@ [db |-> "ok",
                              ret |-> [kind |-> "rows", rows |-> answer.rows,
                                       source |-> "db", age |-> 0]]
                /\ cache' =
                     IF use_cache /\ answer.rows # << >>
                     THEN [cache EXCEPT ![generate_cache_key(query_name, params)] =
                             [exists |-> TRUE, timestamp |-> cache_now,
                              query_name |-> query_name, params |-> params,
                              results |-> answer.rows]]
                     ELSE cache
  /\ UNCHANGED cache_now
  /\ UNCHANGED <<computeVars, schedVars, storeVars, trendVars, formatVars, dbVars>>

\* Time passes.
CacheTick ==
  /\ cache_now < MaxClock
  /\ cache_now' = cache_now + 1
  /\ UNCHANGED <<cache, query_call>>
  /\ UNCHANGED <<computeVars, schedVars, storeVars, trendVars, formatVars, dbVars>>

InitQuery ==
  /\ cache_now = 0
  /\ cache = [key \in CacheKeys |-> NoCacheFile]
  /\ query_call = NoResult
  /\ IdleCompute /\ IdleScheduler /\ IdleStore /\ IdleTrend
  /\ IdleFormat /\ IdleDatabase

NextQuery == ExecuteQuery \/ CacheTick

SpecQuery == InitQuery /\ [][NextQuery]_vars

\* C29: execute_query with use_cache returns no cached result older than
\* cache_ttl while the database query succeeds; a cached result of any age
\* is returned only after the database query has failed, every record of it
\* marked _is_fallback; and a failed query for which no cache entry of its
\* (query_name, params) exists returns None.
C29_CacheAndFallback ==
  (query_call.kind = "call" /\ query_call.use_cache)
    => /\ query_call.db = "ok" => query_call.ret.source = "db"
       /\ (query_call.ret.kind = "rows" /\ query_call.ret.source = "cache")
            => query_call.ret.age <= query_call.cache_ttl
       /\ (query_call.ret.kind = "rows" /\ query_call.ret.source = "fallback")
            => /\ query_call.db = "failed"
               /\ \A i \in 1..Len(query_call.ret.rows) :
                    /\ "_is_fallback" \in DOMAIN query_call.ret.rows[i]
                    /\ query_call.ret.rows[i]["_is_fallback"]
       /\ (query_call.db = "failed" /\ ~query_call.had_entry)
            => query_call.ret.kind = "None"

(***************************************************************************)
(* The detectors of InventoryTracker and of ReportGenerator on the same    *)
(* pair of snapshots: stock 0, 10 or 11 (10 -> 11 is exactly the threshold *)
(* of 10 percent, 11 -> 10 is below it), both statuses.                    *)
(***************************************************************************)
InitAgree ==
  /\ current_data \in SnapshotsOf({0, 10, 11}, Statuses)
  /\ previous_data \in SnapshotsOf({0, 10, 11}, Statuses)
  /\ highlight_threshold = 10
  /\ op = "none"
  /\ merged = << >>
  /\ result = NoResult
  /\ written = << >>
  /\ IdleScheduler /\ IdleStore /\ IdleTrend
  /\ IdleFormat /\ IdleDatabase /\ IdleQuery

NextAgree ==
  \/ CalculateChanges
  \/ CompareInventoryLevels
  \/ DetectDeactivationsReport
  \/ DetectDeactivations

SpecAgree == InitAgree /\ [][NextAgree]_vars

\* The significant rows of a change report as stock line, delta and
\* delta_percent.
SignificantSet(rows) ==
  {[key |-> rows[i].key, change |-> rows[i].change,
    change_percent |-> rows[i].change_percent] : i \in 1..Len(rows)}

\* C30: on two non-empty snapshots and the same threshold, what one
\* implementation of a detector has returned is what the other implementation
\* returns for the same snapshots: compare_inventory_levels and
\* _calculate_changes select the same set of significant rows with the same
\* change and change_percent, and detect_deactivations and
\* _detect_deactivations return the same rows.
C30_ImplementationsAgree ==
  (current_data # << >> /\ previous_data # << >>)
    => /\ op = "compare_inventory_levels"
            => SignificantSet(result.details) =
               SignificantSet(calculate_changes(current_data, previous_data,
                                highlight_threshold).report.significant_changes)
       /\ op = "_calculate_changes"
            => SignificantSet(result.significant_changes) =
               SignificantSet(compare_inventory_levels(current_data, previous_data,
                                highlight_threshold).report.details)
       /\ op = "detect_deactivations"
            => result.rows = detect_deactivations_report(current_data, previous_data).rows
       /\ op = "_detect_deactivations"
            => result.rows = detect_deactivations(current_data, previous_data).rows

\* compare_inventory_levels has run on two non-empty snapshots and reports
\* some rows of the join, not all, as significant.
C30_Witness ==
  /\ op = "compare_inventory_levels"
  /\ current_data # << >> /\ previous_data # << >>
  /\ result.details # << >>
  /\ Len(result.details) < Len(merged)

==========================================================================
